---- MODULE Spec2Model ----
(***************************************************************************)
(* The session state machine of bin/varnishd/cache/cache_center.c:         *)
(* CNT_Session and its step handlers cnt_first .. cnt_done, for one client *)
(* session driven by a worker thread, together with the hash, storage,     *)
(* backend and waiter collaborators the handlers call.                     *)
(***************************************************************************)
EXTENDS Integers, Sequences, FiniteSets, TLC

\* ------------------------------------------------------------------ bounds

\* Requests (xids handed out by cnt_start) per run of the model.
MaxReq == 2

\* cache_param->max_restarts ranges over 0..MaxRestartsParam.
MaxRestartsParam == 2

\* The global xids counter is a C unsigned and wraps; the model gives it
\* this many values instead of 2^32.
XidWrap == 256

\* Objcore slots of the one objhead the session's digest selects.
MaxOC == 1

\* ESI includes nest up to MaxEsiLevel deep.
MaxEsiLevel == 2

OCSlots == 1..MaxOC

\* ------------------------------------------------------------------ state

VARIABLES
    sp,       \* struct sess: the session
    wrk,      \* struct worker: the scratch of the worker thread
    oh,       \* the objhead (hash layer) the session's digest selects
    xids,     \* static unsigned xids
    param,    \* cache_param
    disp,     \* position of the worker in CNT_Session
    sloc,     \* who holds the session when no worker runs it
    abort,    \* why the process aborted ("" while it runs)
    gh,       \* history of the current request: object references (held) and
              \* busy markers (busy) taken and not yet given back, and what
              \* it added to wrk->stats.cache_hitpass (hitpass)
    pool      \* the other worker threads of the pool, each with a session of
              \* its own, where they stand in the xid assignment of cnt_start

vars == <<sp, wrk, oh, xids, param, disp, sloc, abort, gh, pool>>

\* ----------------------------------------------------- values and records

\* struct object, as far as the handlers read it. valid = FALSE is NULL.
NoObj == [valid |-> FALSE, oc |-> 0, gziped |-> FALSE, len0 |-> TRUE,
          esidata |-> FALSE, ttl |-> 0, grace |-> 0]

\* struct busyobj. valid = FALSE is NULL.
NoBusyObj == [valid |-> FALSE, do_stream |-> FALSE, do_gzip |-> FALSE,
              do_gunzip |-> FALSE, do_esi |-> FALSE, is_gzip |-> FALSE,
              is_gunzip |-> FALSE, vfp |-> "none", ttl |-> 0, grace |-> 0]

\* struct objcore in a slot of the objhead. st is "free", "busy" (OC_F_BUSY)
\* or "live"; pass is OC_F_PASS; incache says the expiry engine holds it.
FreeOC == [st |-> "free", pass |-> FALSE, refcnt |-> 0, incache |-> FALSE,
           own |-> "none", gziped |-> FALSE, len0 |-> TRUE, esidata |-> FALSE]

\* The machine a handler works on: the records it may change, the reason
\* of an abort (assert, WRONG, INCOMPL, NULL dereference), and what the
\* handler returned to CNT_Session (ret = 1 is "release", to park).
Machine == [sp |-> sp, wrk |-> wrk, oh |-> oh, gh |-> gh, param |-> param,
            crash |-> "", ret |-> 0, park |-> "none"]

Crash(m, why) == IF m.crash = "" THEN [m EXCEPT !.crash = why] ELSE m

\* assert(), AZ(), AN(), CHECK_OBJ_NOTNULL(): the process aborts when the
\* condition fails.
Chk(m, cond, why) == IF cond THEN m ELSE Crash(m, why)

Min(S) == CHOOSE x \in S : \A y \in S : x <= y

\* ------------------------------------------------------------- hash layer
\* HSH_Lookup, HSH_Deref, HSH_Unbusy, HSH_Drop, EXP_Insert: cache_hash.c and
\* cache_expire.c, called by the handlers.

\* The objcore carries OC_F_BUSY or OC_F_PASS, or there is none.
AssertObjCorePassOrBusy(m, i) ==
    i = 0 \/ m.oh.ocs[i].st = "busy" \/ m.oh.ocs[i].pass

\* hsh_rush: the sessions on the waiting list are scheduled again. The
\* session of this model runs while a handler works, so it is not on it.
hsh_rush(m) == m

\* One reference to objcore i is given back; the last one removes the
\* objcore from the objhead, and with it a busy flag it still carries.
hsh_derefoc(m, i) ==
    LET oc == m.oh.ocs[i] IN
    IF oc.st = "free" \/ oc.refcnt = 0 THEN Crash(m, "deref of free objcore")
    ELSE IF oc.refcnt > 1 THEN [m EXCEPT !.oh.ocs[i].refcnt = oc.refcnt - 1]
    ELSE LET m1 == [m EXCEPT !.oh.ocs[i] = FreeOC,
                             !.gh.busy = IF oc.st = "busy" /\ oc.own = "sess"
                                          THEN @ - 1 ELSE @]
         IN IF oc.st = "busy" THEN hsh_rush(m1) ELSE m1

\* HSH_Deref(wrk, NULL, &wrk->obj)
HSH_DerefObj(m) ==
    IF ~m.wrk.obj.valid THEN Crash(m, "HSH_Deref of NULL object")
    ELSE LET i  == m.wrk.obj.oc
             m1 == [m EXCEPT !.wrk.obj = NoObj, !.gh.held = @ - 1]
         IN IF i = 0 THEN m1 ELSE hsh_derefoc(m1, i)

\* AZ(HSH_Deref(wrk, wrk->objcore, NULL)); wrk->objcore = NULL
HSH_DerefObjCore(m) ==
    LET i == m.wrk.objcore IN
    IF i = 0 THEN Crash(m, "HSH_Deref of NULL objcore")
    ELSE IF m.oh.ocs[i].refcnt # 1 THEN Crash(m, "AZ(HSH_Deref(objcore))")
    ELSE [hsh_derefoc(m, i) EXCEPT !.wrk.objcore = 0]

\* HSH_Unbusy(wrk): clears OC_F_BUSY of wrk->obj's objcore and rushes.
HSH_Unbusy(m) ==
    LET i == m.wrk.obj.oc IN
    IF ~m.wrk.obj.valid \/ i = 0 THEN Crash(m, "HSH_Unbusy without objcore")
    ELSE IF m.oh.ocs[i].st # "busy" THEN Crash(m, "HSH_Unbusy of non-busy objcore")
    ELSE hsh_rush([m EXCEPT !.oh.ocs[i].st = "live",
                            !.gh.busy = IF m.oh.ocs[i].own = "sess"
                                        THEN @ - 1 ELSE @])

\* EXP_Insert(wrk->obj): the expiry engine takes a reference of its own.
EXP_Insert(m) ==
    LET i == m.wrk.obj.oc IN
    IF ~m.wrk.obj.valid \/ i = 0 THEN Crash(m, "EXP_Insert without objcore")
    ELSE [m EXCEPT !.oh.ocs[i].incache = TRUE,
                   !.oh.ocs[i].refcnt = @ + 1,
                   !.oh.ocs[i].gziped = m.wrk.obj.gziped,
                   !.oh.ocs[i].len0 = m.wrk.obj.len0,
                   !.oh.ocs[i].esidata = m.wrk.obj.esidata]

\* HSH_Drop(wrk): gives up wrk->obj, publishing the failure.
HSH_Drop(m) ==
    IF ~m.wrk.obj.valid THEN Crash(m, "HSH_Drop of NULL object")
    ELSE IF ~AssertObjCorePassOrBusy(m, m.wrk.obj.oc)
         THEN Crash(m, "AssertObjCorePassOrBusy in HSH_Drop")
    ELSE IF m.wrk.obj.oc # 0 THEN HSH_DerefObj(HSH_Unbusy(m))
    ELSE HSH_DerefObj(m)

\* New_BusyObj(wrk): a zeroed busyobj on the worker.
New_BusyObj(m) == [m EXCEPT !.wrk.busyobj = [NoBusyObj EXCEPT !.valid = TRUE]]

\* HSH_Lookup(sp, &oh). m.ret carries the result: an objcore slot, or 0
\* when the session was put on the waiting list of a busy objcore.
HSH_Lookup(m) ==
    LET ocs  == m.oh.ocs
        live == {i \in OCSlots : ocs[i].st = "live" /\ ocs[i].incache}
        busy == {i \in OCSlots : ocs[i].st = "busy"}
        free == {i \in OCSlots : ocs[i].st = "free"}
        m0   == [m EXCEPT !.sp.hash_objhead = FALSE]
    IN IF live # {}
       THEN [m0 EXCEPT !.oh.ocs[Min(live)].refcnt = @ + 1, !.ret = Min(live)]
       ELSE IF busy # {}
       THEN [m0 EXCEPT !.sp.hash_objhead = TRUE, !.oh.waiting = TRUE, !.ret = 0]
       ELSE IF free = {} THEN Crash(m, "objhead full")
       ELSE New_BusyObj([m0 EXCEPT
                !.oh.ocs[Min(free)] = [FreeOC EXCEPT !.st = "busy", !.refcnt = 1,
                                                     !.own = "sess"],
                !.gh.busy = @ + 1,
                !.ret = Min(free)])

\* oc_getobj(wrk, oc): the object of a live objcore.
oc_getobj(m, i) ==
    [valid |-> TRUE, oc |-> i, gziped |-> m.oh.ocs[i].gziped,
     len0 |-> m.oh.ocs[i].len0, esidata |-> m.oh.ocs[i].esidata,
     ttl |-> 0, grace |-> 0]

\* ---------------------------------------------------- storage and backend

\* STV_NewObject(wrk, hint, ...): on success the new object takes over the
\* worker's objcore ("refcnt follows pointer") and wrk->objcore is NULL.
STV_NewObject(m, ok) ==
    IF ~ok THEN [m EXCEPT !.wrk.obj = NoObj]
    ELSE [m EXCEPT !.wrk.obj = [NoObj EXCEPT !.valid = TRUE, !.oc = m.wrk.objcore,
                                             !.ttl = m.wrk.busyobj.ttl,
                                             !.grace = m.wrk.busyobj.grace],
                   !.wrk.objcore = 0,
                   !.gh.held = @ + 1]

\* VDI_CloseFd(wrk): closes the backend connection the worker holds.
VDI_CloseFd(m) ==
    IF ~m.wrk.vbc THEN Crash(m, "VDI_CloseFd without vbc")
    ELSE [m EXCEPT !.wrk.vbc = FALSE]

\* SES_Close(sp, reason): closes the client socket.
SES_Close(m, reason) == [m EXCEPT !.sp.fd = FALSE]

\* --------------------------------------------------------------- handlers
\* Each handler maps the machine and the outcomes of the calls it makes
\* (hook results, parser and backend results) to the machine it leaves.

\* RFC2616_Req_Gzip(sp): the request's Accept-Encoding admits gzip.
RFC2616_Req_Gzip(ae) == ae \in {"gzip", "deflate, gzip"}

\* cnt_first
cnt_first(m) ==
    LET m1 == Chk(Chk(Chk(m, m.sp.xid = 0, "first: xid"),
                      m.sp.restarts = 0, "first: restarts"),
                  m.sp.esi_level = 0, "first: esi_level")
    IN [m1 EXCEPT !.sp.ws = 0, !.sp.step = "wait"]

\* cnt_wait. c is what HTC_Complete finds in the receive buffer (1 a
\* complete request, 0 not yet), linger is cache_param->session_linger,
\* rx what poll and HTC_Rx give when the handler lingers: 0 nothing, 1 a
\* complete request, -2 overflow, -1 EOF or error.
cnt_wait(m, c, linger, rx) ==
    LET i  == IF c = 0 /\ linger > 0 THEN rx ELSE c
        m1 == Chk(Chk(Chk(Chk(m, ~m.sp.vcl, "wait: AZ(sp->vcl)"),
                          ~m.wrk.obj.valid, "wait: AZ(wrk->obj)"),
                      m.sp.esi_level = 0, "wait: AZ(esi_level)"),
                  m.sp.xid = 0, "wait: xid == 0")
    IN IF i = 0 THEN [m1 EXCEPT !.ret = 1, !.park = "waiter"]
       ELSE IF i = 1 THEN [m1 EXCEPT !.sp.step = "start"]
       ELSE [SES_Close(m1, "wait") EXCEPT !.sp.step = "done"]

\* cnt_start. rq is the request the parser dissects: done is the status
\* http_DissectRequest returns, close what http_DoConnection finds,
\* expect the Expect: header ("none", "100-continue", "other").
cnt_start(m, x, rq) ==
    LET m1 == Chk(Chk(Chk(Chk(m, m.sp.restarts = 0, "start: AZ(restarts)"),
                          ~m.wrk.obj.valid, "start: AZ(wrk->obj)"),
                      ~m.sp.vcl, "start: AZ(sp->vcl)"),
                  m.sp.esi_level = 0, "start: AZ(esi_level)")
        m2 == [m1 EXCEPT !.sp.xid = x,
                         !.sp.vcl = TRUE, !.wrk.vcl = FALSE,
                         !.sp.http = rq.ae, !.sp.head = rq.head,
                         !.sp.proto11 = rq.proto11,
                         !.sp.ws = 1,
                         !.gh = [held |-> 0, busy |-> 0, hitpass |-> 0]]
        m3 == [m2 EXCEPT !.sp.http0 = rq.ae]
    IN IF rq.done = 400
       THEN [SES_Close(m2, "junk") EXCEPT !.sp.step = "done"]
       ELSE IF rq.done # 0
       THEN [m3 EXCEPT !.sp.err_code = rq.done, !.sp.step = "error"]
       ELSE IF rq.expect = "other"
       THEN [m3 EXCEPT !.sp.doclose = rq.close, !.sp.err_code = 417,
                       !.sp.step = "error"]
       ELSE [m3 EXCEPT !.sp.doclose = rq.close, !.sp.step = "recv"]

\* A cap that is exceeded only above max_restarts; the restart bound of
\* C6 does not survive it.
RecvCapAboveMax(restarts, max) == restarts > max

\* The restart cap of cnt_recv.
RecvCapExceeded(restarts, max) == restarts >= max

\* cnt_recv. r is the result of vcl_recv.
cnt_recv(m, r) ==
    LET m1 == Chk(Chk(Chk(m, m.sp.vcl, "recv: sp->vcl"),
                      ~m.wrk.obj.valid, "recv: AZ(wrk->obj)"),
                  ~m.sp.director, "recv: AZ(sp->director)")
        m2 == [m1 EXCEPT !.sp.director = TRUE]
        m3 == IF m.param.http_gzip_support /\ r \notin {"pipe", "pass"}
              THEN [m2 EXCEPT !.sp.http = IF RFC2616_Req_Gzip(@) THEN "gzip"
                                          ELSE "none"]
              ELSE m2
        m4 == [m3 EXCEPT !.sp.wantbody = ~m.sp.head]
    IN IF RecvCapExceeded(m.sp.restarts, m.param.max_restarts)
       THEN [m2 EXCEPT !.sp.err_code = IF @ = 0 THEN 503 ELSE @,
                       !.sp.step = "error"]
       ELSE CASE r = "lookup" -> [m4 EXCEPT !.sp.step = "lookup"]
              [] r = "pipe"   -> IF m.sp.esi_level > 0
                                 THEN Crash(m4, "recv: INCOMPL pipe in ESI")
                                 ELSE [m4 EXCEPT !.sp.step = "pipe"]
              [] r = "pass"   -> [m4 EXCEPT !.sp.step = "pass"]
              [] r = "error"  -> [m4 EXCEPT !.sp.step = "error"]
              [] OTHER        -> Crash(m4, "Illegal action in vcl_recv{}")

\* A parked lookup after which the worker still moves the session on; C4
\* does not survive it.
LookupParkedMovesOn(m) ==
    [m EXCEPT !.ret = 1, !.park = "waitinglist", !.sp.step = "miss"]

\* What cnt_lookup does when HSH_Lookup returns no objcore: the session
\* is on the waiting list of the busy objcore, and the worker lets go.
LookupParked(m) == [m EXCEPT !.ret = 1, !.park = "waitinglist"]

\* A hit-for-pass branch that goes to pass with the object still on the
\* worker; C16 does not survive it.
LookupHitPassKeepsObj(m) ==
    [m EXCEPT !.gh.hitpass = @ + 1, !.wrk.objcore = 0, !.sp.step = "pass"]

\* What cnt_lookup does with an objcore flagged OC_F_PASS: it counts the
\* hit-for-pass, gives the object back and goes to pass.
LookupHitPass(m) ==
    [HSH_DerefObj(m) EXCEPT !.gh.hitpass = @ + 1, !.wrk.objcore = 0,
                            !.sp.step = "pass"]

\* cnt_lookup. varyl says that HSH_Lookup left vary match data in the
\* session workspace.
cnt_lookup(m, varyl) ==
    LET m1 == Chk(m, m.sp.vcl, "lookup: sp->vcl")
        m2 == HSH_Lookup(m1)
        oc == m2.ret
    IN IF m2.crash # "" THEN m2
       ELSE IF oc = 0 THEN LookupParked(m2)
       ELSE IF m2.oh.ocs[oc].st = "busy"
       THEN Chk([m2 EXCEPT !.ret = 0,
                           !.sp.ws = IF varyl THEN 2 ELSE @,
                           !.wrk.objcore = oc,
                           !.sp.step = "miss"],
                m2.wrk.busyobj.valid, "lookup: wrk->busyobj")
       ELSE LET m3 == [m2 EXCEPT !.ret = 0, !.wrk.obj = oc_getobj(m2, oc),
                                 !.gh.held = @ + 1]
            IN IF m2.oh.ocs[oc].pass
               THEN LookupHitPass(m3)
               ELSE [m3 EXCEPT !.sp.step = "hit"]

\* A restart edge that keeps the director of the abandoned attempt; the
\* entry condition of recv (C7) does not survive it.
HitRestartKeepsDirector(m) ==
    [m EXCEPT !.sp.restarts = @ + 1, !.sp.step = "recv"]

\* A restart edge that rolls the request back to the snapshots of
\* cnt_start; C8 as amended tells it from the code.
HitRestartRollsBack(m) ==
    [m EXCEPT !.sp.director = FALSE, !.sp.restarts = @ + 1, !.sp.step = "recv",
              !.sp.ws = 1, !.sp.http = m.sp.http0]

\* A restart edge that does not count the restart: the request can go
\* round recv, lookup and hit for ever; C32 does not survive it.
HitRestartKeepsCount(m) ==
    [m EXCEPT !.sp.director = FALSE, !.sp.step = "recv"]

\* The restart edge of cnt_hit.
HitRestart(m) ==
    [m EXCEPT !.sp.director = FALSE, !.sp.restarts = @ + 1, !.sp.step = "recv"]

\* cnt_hit. r is the result of vcl_hit.
cnt_hit(m, r) ==
    LET m1 == Chk(Chk(Chk(m, m.wrk.obj.valid, "hit: wrk->obj"),
                      m.sp.vcl, "hit: sp->vcl"),
                  m.wrk.obj.oc # 0 /\ ~m.oh.ocs[m.wrk.obj.oc].pass,
                  "hit: OC_F_PASS")
        m2 == m1
        m3 == [HSH_DerefObj(m2) EXCEPT !.wrk.objcore = 0, !.wrk.busyobj = NoBusyObj]
    IN IF m1.crash # "" THEN m1
       ELSE IF r = "deliver"
       THEN [Chk(Chk(m2, ~m.wrk.bereq, "hit: AZ(wrk->bereq->ws)"),
                 ~m.wrk.beresp, "hit: AZ(wrk->beresp->ws)")
             EXCEPT !.sp.step = "prepresp"]
       ELSE CASE r = "pass"    -> [m3 EXCEPT !.sp.step = "pass"]
              [] r = "error"   -> [m3 EXCEPT !.sp.step = "error"]
              [] r = "restart" -> HitRestart(m3)
              [] OTHER         -> Crash(m3, "Illegal action in vcl_hit{}")

\* cnt_miss. r is the result of vcl_miss.
cnt_miss(m, r) ==
    LET m1 == Chk(Chk(Chk(Chk(m, m.sp.vcl, "miss: sp->vcl"),
                          ~m.wrk.obj.valid, "miss: AZ(wrk->obj)"),
                      m.wrk.objcore # 0, "miss: AN(wrk->objcore)"),
                  m.wrk.busyobj.valid, "miss: wrk->busyobj")
        m2 == [m1 EXCEPT !.wrk.bereq = TRUE]
    IN IF m1.crash # "" THEN m1
       ELSE CASE r = "error"   -> [HSH_DerefObjCore(m2) EXCEPT !.wrk.bereq = FALSE,
                                                              !.sp.step = "error"]
              [] r = "pass"    -> [HSH_DerefObjCore(m2) EXCEPT !.sp.step = "pass"]
              [] r = "fetch"   -> [m2 EXCEPT !.sp.step = "fetch"]
              [] r = "restart" -> Crash(HSH_DerefObjCore(m2), "miss: INCOMPL restart")
              [] OTHER         -> Crash(m2, "Illegal action in vcl_miss{}")

\* cnt_pass. r is the result of vcl_pass.
cnt_pass(m, r) ==
    LET m1 == Chk(Chk(m, m.sp.vcl, "pass: sp->vcl"),
                  ~m.wrk.obj.valid, "pass: AZ(wrk->obj)")
        m2 == [m1 EXCEPT !.wrk.bereq = TRUE]
    IN IF r = "error"
       THEN [m2 EXCEPT !.wrk.bereq = FALSE, !.sp.step = "error"]
       ELSE IF r # "pass" THEN Crash(m2, "pass: handling == VCL_RET_PASS")
       ELSE New_BusyObj([m2 EXCEPT !.sp.step = "fetch"])

\* PipeSession(sp): bytes are shuttled until either end closes; the
\* client socket is closed when it returns.
PipeSession(m) == SES_Close(m, "pipe")

\* cnt_pipe. r is the result of vcl_pipe.
cnt_pipe(m, r) ==
    LET m1 == Chk(m, m.sp.vcl, "pipe: sp->vcl")
        m2 == [m1 EXCEPT !.wrk.bereq = TRUE]
    IN IF r = "error" THEN Crash(m2, "pipe: INCOMPL error")
       ELSE IF r # "pipe" THEN Crash(m2, "pipe: handling == VCL_RET_PIPE")
       ELSE [PipeSession(m2) EXCEPT !.wrk.bereq = FALSE, !.sp.step = "done"]

\* A clean-up that leaves the director of the abandoned fetch; C26 does
\* not survive it.
FetchCleanupKeepsDirector(m) ==
    LET m5 == IF m.wrk.objcore # 0 THEN HSH_DerefObjCore(m) ELSE m
    IN [m5 EXCEPT !.wrk.bereq = FALSE, !.wrk.beresp = FALSE,
                  !.wrk.h_content_length = FALSE,
                  !.wrk.storage_hint = FALSE]

\* "Clean up partial fetch" in cnt_fetch: the busy objcore is given back
\* and the per-fetch state of worker and session is cleared.
FetchCleanup(m) ==
    LET m5 == IF m.wrk.objcore # 0 THEN HSH_DerefObjCore(m) ELSE m
    IN [m5 EXCEPT !.wrk.bereq = FALSE, !.wrk.beresp = FALSE,
                  !.wrk.h_content_length = FALSE,
                  !.sp.director = FALSE,
                  !.wrk.storage_hint = FALSE]

\* FetchHdr(sp), with the single retry of cnt_fetch: hdr is the sequence
\* of results of the attempts made (0 ok, 1 retryable failure, -1 failure).
FetchHdrAttempts == {<<0>>, <<-1>>, <<1, 0>>, <<1, 1>>, <<1, -1>>}

\* cnt_fetch. hdr as above; be is what the backend's headers say (cl: a
\* Content-Length, ttl: what RFC2616_Ttl computes); vf is vcl_fetch: its
\* result and the beresp.* variables it sets.
cnt_fetch(m, hdr, be, vf) ==
    LET m1 == Chk(Chk(Chk(Chk(Chk(Chk(m, m.sp.vcl, "fetch: sp->vcl"),
                                  m.wrk.busyobj.valid, "fetch: wrk->busyobj"),
                              m.sp.director, "fetch: AN(sp->director)"),
                          ~m.wrk.vbc, "fetch: AZ(wrk->vbc)"),
                      ~m.wrk.h_content_length, "fetch: AZ(wrk->h_content_length)"),
                  ~m.wrk.storage_hint, "fetch: AZ(wrk->storage_hint)")
        i  == hdr[Len(hdr)]
        m2 == [m1 EXCEPT !.wrk.beresp = TRUE]
        \* header fetch failed
        mF == [m2 EXCEPT !.sp.err_code = 503]
        handling == IF i # 0 THEN "error" ELSE vf.ret
        \* header fetch succeeded, vcl_fetch has run
        mS == Chk([m2 EXCEPT !.wrk.vbc = TRUE,
                             !.wrk.h_content_length = be.cl,
                             !.sp.err_code = 200,
                             !.wrk.busyobj.ttl = IF m.wrk.objcore = 0 THEN -1
                                                 ELSE vf.ttl,
                             !.wrk.busyobj.grace = 10,
                             !.wrk.busyobj.do_stream = vf.do_stream,
                             !.wrk.busyobj.do_gzip = vf.do_gzip,
                             !.wrk.busyobj.do_gunzip = vf.do_gunzip,
                             !.wrk.busyobj.do_esi = vf.do_esi],
                  ~m.wrk.busyobj.do_esi, "fetch: AZ(busyobj->do_esi)")
        m3 == IF i # 0 THEN mF ELSE VDI_CloseFd(mS)
        m4 == Chk(m3, ~m3.wrk.vbc, "fetch: AZ(wrk->vbc)")
        m6 == FetchCleanup(m4)
    IN IF m1.crash # "" THEN m1
       ELSE IF i = 0 /\ vf.ret = "hit_for_pass"
       THEN IF m.wrk.objcore # 0
            THEN [mS EXCEPT !.oh.ocs[m.wrk.objcore].pass = TRUE,
                            !.sp.step = "fetchbody"]
            ELSE [mS EXCEPT !.sp.step = "fetchbody"]
       ELSE IF i = 0 /\ vf.ret = "deliver"
       THEN [Chk(mS, AssertObjCorePassOrBusy(mS, m.wrk.objcore),
                 "fetch: AssertObjCorePassOrBusy")
             EXCEPT !.sp.step = "fetchbody"]
       ELSE IF m4.crash # "" THEN m4
       ELSE CASE handling = "restart" -> [m6 EXCEPT !.sp.restarts = @ + 1,
                                                   !.sp.step = "recv"]
              [] handling = "error"   -> [m6 EXCEPT !.sp.step = "error"]
              [] OTHER -> Crash(m6, "Illegal action in vcl_fetch{}")

\* A negotiation that keeps the gunzip hint for a body that is not
\* gzipped; C20 as amended tells it from the code.
FetchbodyEncodingKeepsGunzip(gzip_support, ce, bo) ==
    LET b1 == IF ~gzip_support
              THEN [bo EXCEPT !.do_gzip = FALSE, !.do_gunzip = FALSE] ELSE bo
        b2 == [b1 EXCEPT !.is_gzip = (ce = "gzip"), !.is_gunzip = (ce = "none")]
        b4 == IF b2.do_gzip /\ ~b2.is_gunzip THEN [b2 EXCEPT !.do_gzip = FALSE]
              ELSE b2
    IN [b4 EXCEPT !.vfp = IF b4.do_esi THEN "esi"
                          ELSE IF b4.do_gunzip THEN "gunzip"
                          ELSE IF b4.do_gzip THEN "gzip"
                          ELSE IF b4.is_gzip THEN "testgzip"
                          ELSE @]

\* The encoding negotiation of cnt_fetchbody: from http_gzip_support, the
\* class of the backend's Content-Encoding ("gzip", "none", "other") and
\* the busyobj as vcl_fetch left it, to the busyobj with the filter chosen.
FetchbodyEncoding(gzip_support, ce, bo) ==
    LET b1 == IF ~gzip_support
              THEN [bo EXCEPT !.do_gzip = FALSE, !.do_gunzip = FALSE] ELSE bo
        b2 == [b1 EXCEPT !.is_gzip = (ce = "gzip"), !.is_gunzip = (ce = "none")]
        b3 == IF b2.do_gunzip /\ ~b2.is_gzip THEN [b2 EXCEPT !.do_gunzip = FALSE]
              ELSE b2
        b4 == IF b3.do_gzip /\ ~b3.is_gunzip THEN [b3 EXCEPT !.do_gzip = FALSE]
              ELSE b3
    IN [b4 EXCEPT !.vfp = IF b4.do_esi THEN "esi"
                          ELSE IF b4.do_gunzip THEN "gunzip"
                          ELSE IF b4.do_gzip THEN "gzip"
                          ELSE IF b4.is_gzip THEN "testgzip"
                          ELSE @]

\* An object marked gzipped only when this fetch gzips it: a body that
\* came gzipped from the backend counts as plain. C14 does not survive it.
FetchbodyGzipedOwnOnly(bo) == bo.do_gzip

\* obj->gziped as cnt_fetchbody sets it.
FetchbodyGziped(bo) == bo.do_gzip \/ (bo.is_gzip /\ ~bo.do_gunzip)

\* The wantbody test turned round: streaming is given up for the requests
\* that want a body. C15 does not survive it.
FetchbodyStreamInverted(bo, esi_level, wantbody) ==
    IF bo.do_esi \/ esi_level > 0 THEN FALSE
    ELSE IF wantbody THEN FALSE
    ELSE bo.do_stream

\* do_stream after the checks of cnt_fetchbody that come before the
\* object is allocated.
FetchbodyStream(bo, esi_level, wantbody) ==
    IF bo.do_esi \/ esi_level > 0 THEN FALSE
    ELSE IF ~wantbody THEN FALSE
    ELSE bo.do_stream

\* The object allocation of cnt_fetchbody, with its fallback to Transient
\* storage: a1 and a2 say whether the first and the second STV_NewObject
\* succeed.
FetchbodyAlloc(m, a1, a2) ==
    LET m1 == STV_NewObject(m, a1)
    IN IF m1.wrk.obj.valid THEN m1
       ELSE [STV_NewObject(m1, a2) EXCEPT
                !.wrk.busyobj.ttl = IF @ > m.param.shortlived
                                    THEN m.param.shortlived ELSE @,
                !.wrk.busyobj.grace = 0]

\* What cnt_fetchbody does when no object could be allocated.
FetchbodyNoObject(m) ==
    VDI_CloseFd([m EXCEPT !.sp.err_code = 503, !.sp.step = "error"])

\* FetchBody(wrk, wrk->obj): the body is read through the filter; the
\* backend connection is closed or recycled. body.fail says it failed,
\* body.len0 that the body was empty.
FetchBody(m, body) ==
    [m EXCEPT !.wrk.vbc = FALSE,
              !.wrk.obj.len0 = body.len0 \/ body.fail,
              !.wrk.obj.esidata = m.wrk.busyobj.vfp = "esi" /\ ~body.fail]

\* cnt_fetchbody. ce is the class of the backend's Content-Encoding,
\* a1/a2 the allocation outcomes, cond304 whether a 304 reply is possible
\* (status 200, conditional request, RFC2616_Do_Cond), body the body fetch.
cnt_fetchbody(m, ce, a1, a2, cond304, body) ==
    LET m1 == Chk(m, m.wrk.busyobj.valid, "fetchbody: wrk->busyobj")
        bo1 == FetchbodyEncoding(m.param.http_gzip_support, ce,
                  IF m.wrk.objcore = 0 THEN [m.wrk.busyobj EXCEPT !.ttl = -1]
                  ELSE m.wrk.busyobj)
        bo2 == [bo1 EXCEPT !.do_stream =
                   FetchbodyStream(bo1, m.sp.esi_level, m.sp.wantbody)]
        m2 == [m1 EXCEPT !.wrk.busyobj = bo2,
                         !.wrk.storage_hint =
                             IF bo2.ttl < m.param.shortlived \/ m.wrk.objcore = 0
                             THEN TRUE ELSE @]
        m3 == FetchbodyAlloc(m2, a1, a2)
        m4 == [m3 EXCEPT !.wrk.storage_hint = FALSE,
                         !.wrk.obj.gziped = FetchbodyGziped(bo2),
                         !.wrk.busyobj.do_stream = IF cond304 THEN FALSE ELSE @]
        m5 == Chk(m4, AssertObjCorePassOrBusy(m4, m4.wrk.obj.oc),
                  "fetchbody: AssertObjCorePassOrBusy")
        m6 == Chk([FetchBody(m5, body) EXCEPT
                      !.wrk.h_content_length = FALSE,
                      !.wrk.bereq = FALSE, !.wrk.beresp = FALSE,
                      !.wrk.busyobj.vfp = "none"],
                  m.sp.director, "fetchbody: AN(sp->director)")
    IN IF m1.crash # "" THEN m1
       ELSE IF ~m3.wrk.obj.valid THEN FetchbodyNoObject(m3)
       ELSE IF m5.crash # "" THEN m5
       ELSE IF m5.wrk.busyobj.do_stream THEN [m5 EXCEPT !.sp.step = "prepresp"]
       ELSE IF m6.crash # "" THEN m6
       ELSE IF body.fail
       THEN [HSH_Drop(m6) EXCEPT !.sp.err_code = 503, !.sp.step = "error"]
       ELSE IF m6.wrk.obj.oc # 0
       THEN [HSH_Unbusy(EXP_Insert(m6)) EXCEPT !.sp.step = "prepresp"]
       ELSE [m6 EXCEPT !.sp.step = "prepresp"]

\* Length rules that overlook the gzip and gunzip filters of the fetch;
\* C18 as amended tells them from the code.
PrepRespLenRulesAnyFilter(bo, hcl) ==
    (IF ~bo.valid THEN {"RES_LEN"} ELSE {})
    \cup (IF bo.valid /\ (hcl \/ ~bo.do_stream) THEN {"RES_LEN"} ELSE {})

\* The response mode cnt_prepresp computes, a subset of the RES_* flags,
\* from the busyobj, wrk->h_content_length, the object, the session and
\* whether the client accepts gzip. First the two rules on the busyobj.
PrepRespLenRules(bo, hcl) ==
    (IF ~bo.valid THEN {"RES_LEN"} ELSE {})
    \cup (IF bo.valid /\ (hcl \/ ~bo.do_stream) /\ ~bo.do_gzip /\ ~bo.do_gunzip
          THEN {"RES_LEN"} ELSE {})

\* A response mode whose last rule is not guarded by "no framing chosen
\* yet": it picks chunked or EOF framing on top of RES_LEN. C11 does not
\* survive it.
PrepRespModeUnguarded(bo, hcl, obj, esi_level, gzip_support, reqgzip, wantbody, proto11) ==
    LET r1 == PrepRespLenRules(bo, hcl)
        r2 == IF obj.esidata THEN (r1 \ {"RES_LEN"}) \cup {"RES_ESI"} ELSE r1
        r3 == IF esi_level > 0 THEN (r2 \ {"RES_LEN"}) \cup {"RES_ESI_CHILD"}
              ELSE r2
        r4 == IF gzip_support /\ obj.gziped /\ ~reqgzip
              THEN (r3 \ {"RES_LEN"}) \cup {"RES_GUNZIP"} ELSE r3
    IN IF obj.len0 /\ (~bo.valid \/ ~bo.do_stream) THEN r4 \cup {"RES_LEN"}
       ELSE IF ~wantbody THEN r4
       ELSE IF proto11 THEN r4 \cup {"RES_CHUNKED"}
       ELSE r4 \cup {"RES_EOF"}

\* A fallback whose empty-body rule also takes the object of a streaming
\* fetch, whose length is still zero; C29 does not survive it.
PrepRespModeEmptyAnyObject(bo, hcl, obj, esi_level, gzip_support, reqgzip, wantbody, proto11) ==
    LET r1 == PrepRespLenRules(bo, hcl)
        r2 == IF obj.esidata THEN (r1 \ {"RES_LEN"}) \cup {"RES_ESI"} ELSE r1
        r3 == IF esi_level > 0 THEN (r2 \ {"RES_LEN"}) \cup {"RES_ESI_CHILD"}
              ELSE r2
        r4 == IF gzip_support /\ obj.gziped /\ ~reqgzip
              THEN (r3 \ {"RES_LEN"}) \cup {"RES_GUNZIP"} ELSE r3
    IN IF r4 \cap {"RES_LEN", "RES_CHUNKED", "RES_EOF"} # {} THEN r4
       ELSE IF obj.len0 THEN r4 \cup {"RES_LEN"}
       ELSE IF ~wantbody THEN r4
       ELSE IF proto11 THEN r4 \cup {"RES_CHUNKED"}
       ELSE r4 \cup {"RES_EOF"}

\* obj.esidata stands for (!sp->disable_esi && wrk->obj->esidata != NULL).
PrepRespMode(bo, hcl, obj, esi_level, gzip_support, reqgzip, wantbody, proto11) ==
    LET r1 == PrepRespLenRules(bo, hcl)
        r2 == IF obj.esidata THEN (r1 \ {"RES_LEN"}) \cup {"RES_ESI"} ELSE r1
        r3 == IF esi_level > 0 THEN (r2 \ {"RES_LEN"}) \cup {"RES_ESI_CHILD"}
              ELSE r2
        r4 == IF gzip_support /\ obj.gziped /\ ~reqgzip
              THEN (r3 \ {"RES_LEN"}) \cup {"RES_GUNZIP"} ELSE r3
    IN IF r4 \cap {"RES_LEN", "RES_CHUNKED", "RES_EOF"} # {} THEN r4
       ELSE IF obj.len0 /\ (~bo.valid \/ ~bo.do_stream) THEN r4 \cup {"RES_LEN"}
       ELSE IF ~wantbody THEN r4
       ELSE IF proto11 THEN r4 \cup {"RES_CHUNKED"}
       ELSE r4 \cup {"RES_EOF"}

\* The restart cap of cnt_prepresp: restart is honoured below it.
PrepRespRestartAllowed(restarts, max) == ~(restarts >= max)

\* What reading do_stream through a NULL busyobj can come to: the process
\* is killed, or the read yields some value.
NullDeref == {"segv", "true", "false"}

\* The restart branch of cnt_prepresp. It reads wrk->busyobj->do_stream
\* without a NULL check: with no busyobj the read is a NULL dereference,
\* and ub names what the build makes of it ("segv", or the value read).
PrepRespRestart(m, ub) ==
    LET stream == IF m.wrk.busyobj.valid THEN m.wrk.busyobj.do_stream
                  ELSE ub = "true"
        m1 == IF ~m.wrk.busyobj.valid /\ ub = "segv"
              THEN Crash(m, "prepresp: NULL wrk->busyobj dereferenced")
              ELSE IF stream THEN HSH_Drop(VDI_CloseFd(m))
              ELSE HSH_DerefObj(m)
        m2 == Chk(m1, ~m1.wrk.obj.valid, "prepresp: AZ(wrk->obj)")
    IN [m2 EXCEPT !.sp.restarts = @ + 1,
                  !.sp.director = FALSE,
                  !.wrk.h_content_length = FALSE,
                  !.wrk.bereq = FALSE, !.wrk.beresp = FALSE, !.wrk.resp = FALSE,
                  !.sp.step = "recv"]

\* cnt_prepresp. r is the result of vcl_deliver.
cnt_prepresp(m, r, ub) ==
    LET m1 == Chk(Chk(Chk(m, m.wrk.obj.valid, "prepresp: wrk->obj"),
                      m.sp.vcl, "prepresp: sp->vcl"),
                  ~(m.wrk.busyobj.valid /\ m.wrk.busyobj.do_stream)
                      \/ AssertObjCorePassOrBusy(m, m.wrk.obj.oc),
                  "prepresp: AssertObjCorePassOrBusy")
        mode == PrepRespMode(m.wrk.busyobj, m.wrk.h_content_length, m.wrk.obj,
                             m.sp.esi_level, m.param.http_gzip_support,
                             RFC2616_Req_Gzip(m.sp.http), m.sp.wantbody,
                             m.sp.proto11)
        m2 == [m1 EXCEPT !.wrk.res_mode = mode,
                         !.sp.doclose = IF "RES_EOF" \in mode THEN "EOF mode" ELSE @,
                         !.wrk.resp = TRUE]
    IN IF m1.crash # "" THEN m1
       ELSE IF r \notin {"deliver", "restart"}
       THEN Crash(m2, "Illegal action in vcl_deliver{}")
       ELSE IF r = "restart"
               /\ PrepRespRestartAllowed(m.sp.restarts, m.param.max_restarts)
       THEN PrepRespRestart(m2, ub)
       ELSE IF m2.wrk.busyobj.valid /\ m2.wrk.busyobj.do_stream
       THEN [m2 EXCEPT !.sp.step = "streambody"]
       ELSE [m2 EXCEPT !.sp.step = "deliver"]

\* A cnt_deliver that does not give the object back; C5 does not survive
\* it.
DeliverKeepsObject(m) ==
    [m EXCEPT !.sp.director = FALSE, !.sp.restarts = 0,
              !.wrk.resp = FALSE, !.sp.step = "done"]

\* cnt_deliver
cnt_deliver(m) ==
    LET m1 == [m EXCEPT !.sp.director = FALSE, !.sp.restarts = 0]
    IN [HSH_DerefObj(m1) EXCEPT !.wrk.resp = FALSE, !.sp.step = "done"]

\* cnt_streambody. body is the outcome of FetchBody.
cnt_streambody(m, body) ==
    LET m1 == Chk(Chk(m, m.wrk.busyobj.valid, "streambody: wrk->busyobj"),
                  m.wrk.obj.valid /\ AssertObjCorePassOrBusy(m, m.wrk.obj.oc),
                  "streambody: AssertObjCorePassOrBusy")
        m2 == Chk([FetchBody(m1, body) EXCEPT
                      !.wrk.h_content_length = FALSE,
                      !.wrk.bereq = FALSE, !.wrk.beresp = FALSE,
                      !.wrk.busyobj.vfp = "none"],
                  m.sp.director, "streambody: AN(sp->director)")
        m3 == IF ~body.fail /\ m2.wrk.obj.oc # 0
              THEN HSH_Unbusy(EXP_Insert(m2))
              ELSE [m2 EXCEPT !.sp.doclose = "Stream error"]
        m4 == [m3 EXCEPT !.sp.director = FALSE, !.sp.restarts = 0]
    IN IF m1.crash # "" THEN m1
       ELSE IF m2.crash # "" THEN m2
       ELSE [HSH_DerefObj(m4) EXCEPT !.wrk.resp = FALSE, !.sp.step = "done"]

\* The object allocation of cnt_error: a1 and a2 say whether the first
\* and the second STV_NewObject succeed.
ErrorAlloc(m, a1, a2) ==
    LET m1 == STV_NewObject(New_BusyObj(m), a1)
    IN IF m1.wrk.obj.valid THEN m1 ELSE STV_NewObject(m1, a2)

\* What cnt_error does when no object could be allocated.
ErrorNoObject(m) ==
    [m EXCEPT !.sp.doclose = "Out of objects",
              !.sp.director = FALSE,
              !.wrk.h_content_length = FALSE,
              !.wrk.beresp = FALSE, !.wrk.bereq = FALSE,
              !.sp.step = "done"]

\* A cap that still honours a restart at max_restarts; C21 does not
\* survive it.
ErrorRestartAtCap(restarts, max) == restarts <= max

\* The restart cap of cnt_error.
ErrorRestartAllowed(restarts, max) == restarts < max

\* cnt_error. a1/a2 are the allocation outcomes, r the result of
\* vcl_error, len0 whether the synthetic body is empty.
cnt_error(m, a1, a2, r, len0) ==
    LET m1 == IF ~m.wrk.obj.valid THEN ErrorAlloc(m, a1, a2) ELSE m
        m2 == [m1 EXCEPT !.sp.err_code = IF @ < 100 \/ @ > 999 THEN 501 ELSE @,
                         !.wrk.obj.len0 = len0]
        m3 == [m2 EXCEPT !.sp.doclose = "error",
                         !.sp.wantbody = TRUE,
                         !.sp.err_code = 0,
                         !.wrk.bereq = FALSE,
                         !.sp.step = "prepresp"]
    IN IF ~m1.wrk.obj.valid THEN ErrorNoObject(m1)
       ELSE IF r = "restart"
               /\ ErrorRestartAllowed(m.sp.restarts, m.param.max_restarts)
       THEN [HSH_Drop(m2) EXCEPT !.sp.director = FALSE,
                                 !.sp.restarts = @ + 1,
                                 !.sp.step = "recv"]
       ELSE IF r \notin {"restart", "deliver"}
       THEN Crash(m2, "error: handling == VCL_RET_DELIVER")
       ELSE m3

\* A cnt_done that leaves the busyobj on the worker; C2 does not survive
\* it.
DoneKeepsBusyObj(m) ==
    LET m1 == Chk(Chk(m, ~m.wrk.obj.valid, "done: AZ(wrk->obj)"),
                  ~m.wrk.vbc, "done: AZ(wrk->vbc)")
    IN [m1 EXCEPT !.sp.director = FALSE, !.sp.restarts = 0]

\* The first part of cnt_done, which every request runs.
DoneRelease(m) ==
    LET m1 == Chk(Chk(m, ~m.wrk.obj.valid, "done: AZ(wrk->obj)"),
                  ~m.wrk.vbc, "done: AZ(wrk->vbc)")
    IN [m1 EXCEPT !.sp.director = FALSE, !.sp.restarts = 0,
                  !.wrk.busyobj = NoBusyObj]

\* A cnt_done that leaves the xid of the finished request; C9 and C22 do
\* not survive it.
DoneKeepsXid(m) == m

\* The end of the request in cnt_done: the session has no xid.
DoneXid(m) == [m EXCEPT !.sp.xid = 0]

\* A cnt_done that closes only what the client asked to have closed; C19
\* does not survive it.
DoneDoCloseOnRequest(m) ==
    IF m.sp.fd /\ m.sp.doclose = "Connection: close"
    THEN SES_Close(m, m.sp.doclose) ELSE m

\* The orderly close of cnt_done: a session with a reason to close is
\* closed.
DoneDoClose(m) ==
    IF m.sp.fd /\ m.sp.doclose # "NULL" THEN SES_Close(m, m.sp.doclose) ELSE m

\* cnt_done. nxt is what the receive buffer holds after HTC_Reinit:
\* "complete" a pipelined request, "partial" some bytes, "empty".
\* A cnt_done that treats an ESI child like a top-level request; C31
\* does not survive it.
DoneEsiChildNever(esi_level) == FALSE

\* "If we did an ESI include, don't mess up our state".
DoneEsiChild(esi_level) == esi_level > 0

cnt_done(m, nxt, linger) ==
    LET m1 == DoneRelease(m)
        m2 == IF m1.sp.vcl THEN [m1 EXCEPT !.wrk.vcl = TRUE, !.sp.vcl = FALSE]
              ELSE m1
        m3 == DoneXid(m2)
        m4 == DoneDoClose(m3)
        m5 == [m4 EXCEPT !.sp.ws = 0]
    IN IF m1.crash # "" THEN m1
       ELSE IF DoneEsiChild(m.sp.esi_level)
       THEN [m1 EXCEPT !.ret = 1, !.park = "esi"]
       ELSE IF ~m4.sp.fd THEN [m4 EXCEPT !.ret = 1, !.park = "deleted"]
       ELSE IF nxt = "complete" THEN [m5 EXCEPT !.sp.step = "start"]
       ELSE IF nxt = "partial" THEN [m5 EXCEPT !.sp.step = "wait"]
       ELSE IF linger > 0 THEN [m5 EXCEPT !.sp.step = "wait"]
       ELSE [m5 EXCEPT !.ret = 1, !.park = "waiter"]

\* ------------------------------------------------------------ the machine

\* A session as SES_New hands it to the acceptor.
NewSess ==
    [step |-> "first", xid |-> 0, restarts |-> 0, director |-> FALSE,
     doclose |-> "NULL", wantbody |-> FALSE, esi_level |-> 0, vcl |-> FALSE,
     fd |-> TRUE, err_code |-> 0, ws |-> 0,
     http |-> "none", http0 |-> "none", head |-> FALSE, proto11 |-> TRUE,
     hash_objhead |-> FALSE]

NewWorker ==
    [obj |-> NoObj, objcore |-> 0, busyobj |-> NoBusyObj, vbc |-> FALSE,
     h_content_length |-> FALSE, storage_hint |-> FALSE, res_mode |-> {},
     vcl |-> FALSE, bereq |-> FALSE, beresp |-> FALSE, resp |-> FALSE]

NoHistory == [held |-> 0, busy |-> 0, hitpass |-> 0]

\* CNT_Init leaves xids at any value; this one lets the counter wrap.
InitXids == XidWrap - 2

\* Requests started so far.
nreq == (xids - InitXids) % XidWrap

\* cache_param, as far as the handlers read it. session_linger is read
\* anew at each use (Lingers): the management process may have changed it.
Params ==
    [max_restarts : 0..MaxRestartsParam,
     http_gzip_support : {TRUE}, shortlived : {10}]

Lingers == {0, 50}

\* Spec follows one session on one worker: no other worker runs.
NoPool == << >>

Init ==
    /\ pool = NoPool
    /\ sp = NewSess
    /\ wrk = NewWorker
    /\ oh = [ocs |-> [i \in OCSlots |-> FreeOC], waiting |-> FALSE]
    /\ xids = InitXids
    /\ param \in Params
    /\ disp = "idle"
    /\ sloc = "acceptor"
    /\ abort = ""
    /\ gh = NoHistory

\* What a handler leaves becomes the state; an abort stops the process
\* where it stood. A handler that returned 1 ends the loop of CNT_Session.
Commit(r) ==
    IF r.crash # ""
    THEN /\ abort' = r.crash
         /\ disp' = "crash"
         /\ UNCHANGED <<sp, wrk, oh, xids, param, pool, sloc, gh>>
    ELSE /\ sp' = r.sp
         /\ wrk' = r.wrk
         /\ oh' = r.oh
         /\ gh' = r.gh
         /\ disp' = IF r.ret = 1 THEN "exit" ELSE disp
         /\ sloc' = IF r.ret = 1 THEN r.park ELSE sloc
         /\ UNCHANGED <<param, pool, abort>>

Running(step) == disp = "loop" /\ sp.step = step

\* CNT_Session up to its loop: the entrance states, the worker holding
\* nothing, and blocking mode for a session that comes from the acceptor
\* or the waiter (blockfail: VTCP_blocking fails).
CNT_Session_enter ==
    /\ disp = "idle"
    /\ sloc \in {"acceptor", "sched"}
    /\ \E blockfail \in BOOLEAN :
          LET m1 == Chk(Chk(Chk(Machine,
                          sp.step \in {"first", "start", "lookup", "recv"},
                          "CNT_Session: entrance state"),
                        ~wrk.obj.valid, "CNT_Session: AZ(wrk->obj)"),
                      wrk.objcore = 0, "CNT_Session: AZ(wrk->objcore)")
              m2 == IF sp.step \in {"first", "start"} /\ blockfail
                    THEN [SES_Close(m1, "error") EXCEPT !.sp.step = "done"]
                    ELSE m1
          IN IF m2.crash # "" THEN Commit(m2) /\ xids' = xids
             ELSE /\ sp' = m2.sp
                  /\ disp' = "loop"
                  /\ sloc' = "worker"
                  /\ UNCHANGED <<wrk, oh, xids, param, pool, abort, gh>>

\* The end of CNT_Session, after the loop: the worker holds nothing.
SessionExitOK(w) == ~w.obj.valid /\ w.objcore = 0

CNT_Session_exit ==
    /\ disp = "exit"
    /\ IF SessionExitOK(wrk)
       THEN disp' = "idle" /\ UNCHANGED <<sp, wrk, oh, xids, param, pool, sloc, abort, gh>>
       ELSE /\ disp' = "crash"
            /\ abort' = "CNT_Session: AZ(wrk->obj), AZ(wrk->objcore)"
            /\ UNCHANGED <<sp, wrk, oh, xids, param, pool, sloc, gh>>

Hooks == [recv    |-> {"lookup", "pipe", "pass", "error"},
          hit     |-> {"deliver", "pass", "error", "restart"},
          miss    |-> {"fetch", "pass", "error", "restart"},
          pass    |-> {"pass", "error"},
          pipe    |-> {"pipe", "error"},
          fetch   |-> {"deliver", "hit_for_pass", "restart", "error"},
          deliver |-> {"deliver", "restart"},
          error   |-> {"deliver", "restart"}]

\* The requests clients send: what the parser makes of them (done, the
\* Connection and Expect headers), the Accept-Encoding header, the method
\* and the protocol version.
Requests ==
    [done : {0, 400, 413}, close : {"NULL", "Connection: close"},
     expect : {"none", "100-continue", "other"},
     ae : {"deflate, gzip"}, head : {FALSE}, proto11 : {TRUE}]

\* The outcomes of a body fetch.
Bodies == [fail : BOOLEAN, len0 : {FALSE}]

\* What vcl_fetch returns and sets on beresp.
VclFetch ==
    [ret : Hooks.fetch, do_stream : BOOLEAN, do_gzip : {FALSE},
     do_gunzip : {FALSE}, do_esi : {FALSE}, ttl : {100}]

\* The classes of the backend's Content-Encoding.
Encodings == {"none"}

Step_first == Running("first") /\ Commit(cnt_first(Machine)) /\ xids' = xids

Step_wait ==
    /\ Running("wait")
    /\ \E c \in {0, 1}, linger \in Lingers, rx \in {0, 1, -1, -2} :
          /\ (c = 1 \/ rx = 1) => nreq < MaxReq
          /\ Commit(cnt_wait(Machine, c, linger, rx))
    /\ xids' = xids

Step_start ==
    /\ Running("start")
    /\ \E rq \in Requests :
          LET x == (xids + 1) % XidWrap
          IN Commit(cnt_start(Machine, x, rq)) /\ xids' = x

Step_recv ==
    Running("recv") /\ xids' = xids
    /\ \E r \in Hooks.recv : Commit(cnt_recv(Machine, r))

Step_lookup ==
    Running("lookup") /\ xids' = xids
    /\ \E varyl \in BOOLEAN : Commit(cnt_lookup(Machine, varyl))

Step_hit ==
    Running("hit") /\ xids' = xids
    /\ \E r \in Hooks.hit : Commit(cnt_hit(Machine, r))

Step_miss ==
    Running("miss") /\ xids' = xids
    /\ \E r \in Hooks.miss : Commit(cnt_miss(Machine, r))

Step_pass ==
    Running("pass") /\ xids' = xids
    /\ \E r \in Hooks.pass : Commit(cnt_pass(Machine, r))

Step_pipe ==
    Running("pipe") /\ xids' = xids
    /\ \E r \in Hooks.pipe : Commit(cnt_pipe(Machine, r))

Step_fetch ==
    Running("fetch") /\ xids' = xids
    /\ \E hdr \in FetchHdrAttempts, cl \in BOOLEAN, vf \in VclFetch :
          Commit(cnt_fetch(Machine, hdr, [cl |-> cl], vf))

Step_fetchbody ==
    Running("fetchbody") /\ xids' = xids
    /\ \E ce \in Encodings, a1 \in BOOLEAN, a2 \in BOOLEAN,
          cond304 \in BOOLEAN, body \in Bodies :
          Commit(cnt_fetchbody(Machine, ce, a1, a2, cond304, body))

Step_streambody ==
    Running("streambody") /\ xids' = xids
    /\ \E body \in Bodies : Commit(cnt_streambody(Machine, body))

Step_prepresp ==
    Running("prepresp") /\ xids' = xids
    /\ \E r \in Hooks.deliver, ub \in NullDeref :
          Commit(cnt_prepresp(Machine, r, ub))

Step_deliver ==
    Running("deliver") /\ xids' = xids /\ Commit(cnt_deliver(Machine))

Step_error ==
    Running("error") /\ xids' = xids
    /\ \E a1 \in BOOLEAN, a2 \in BOOLEAN, r \in Hooks.error, len0 \in {FALSE} :
          Commit(cnt_error(Machine, a1, a2, r, len0))

Step_done ==
    Running("done") /\ xids' = xids
    /\ \E nxt \in {"complete", "partial", "empty"}, linger \in Lingers :
          /\ nxt = "complete" => nreq < MaxReq
          /\ Commit(cnt_done(Machine, nxt, linger))

\* ------------------------------------------------------- the environment

\* The waiter: a parked session whose request has arrived is scheduled in
\* state start; one whose client went away is closed and deleted.
Waiter_ready ==
    /\ sloc = "waiter" /\ nreq < MaxReq
    /\ sp' = [sp EXCEPT !.step = "start"]
    /\ sloc' = "sched"
    /\ UNCHANGED <<wrk, oh, xids, param, pool, disp, abort, gh>>

Waiter_close ==
    /\ sloc = "waiter"
    /\ sp' = [sp EXCEPT !.fd = FALSE]
    /\ sloc' = "deleted"
    /\ UNCHANGED <<wrk, oh, xids, param, pool, disp, abort, gh>>

\* The acceptor: the next connection gets a new session; the worker is
\* the one that served the last.
Accept ==
    /\ sloc = "deleted" /\ disp = "idle" /\ nreq < MaxReq
    /\ sp' = NewSess
    /\ sloc' = "acceptor"
    /\ gh' = NoHistory
    /\ UNCHANGED <<wrk, oh, xids, param, pool, disp, abort>>

BusySlots == {i \in OCSlots : oh.ocs[i].st = "busy"}
LiveSlots == {i \in OCSlots : oh.ocs[i].st = "live" /\ oh.ocs[i].incache}
FreeSlots == {i \in OCSlots : oh.ocs[i].st = "free"}

\* The waiting list is rushed: the session parked on it is scheduled.
Rushed(o) == [o EXCEPT !.waiting = FALSE]

RushSession == IF oh.waiting /\ sloc = "waitinglist" THEN "sched" ELSE sloc

\* What other sessions do to the objhead is seen by this session in
\* HSH_Lookup only: they take their steps when it is about to look up, or
\* while it is parked on the waiting list.
PeerTurn == sloc = "waitinglist" \/ (disp = "loop" /\ sp.step = "lookup")

\* Another session's lookup of the same digest misses and inserts a busy
\* objcore.
Peer_lookup ==
    /\ PeerTurn
    /\ LiveSlots = {} /\ BusySlots = {} /\ FreeSlots # {}
    /\ oh' = [oh EXCEPT !.ocs[Min(FreeSlots)] =
                  [FreeOC EXCEPT !.st = "busy", !.refcnt = 1, !.own = "peer"]]
    /\ UNCHANGED <<sp, wrk, xids, param, pool, disp, sloc, abort, gh>>

\* The other session's fetch ends well: its object is in the cache, as a
\* hit-for-pass object when pass, and the busy flag is cleared.
Peer_unbusy ==
    \E i \in BusySlots, pass \in BOOLEAN, gz \in {FALSE} :
        /\ PeerTurn
        /\ oh.ocs[i].own = "peer"
        /\ oh' = Rushed([oh EXCEPT !.ocs[i] =
                     [FreeOC EXCEPT !.st = "live", !.refcnt = 1, !.incache = TRUE,
                                    !.own = "peer", !.pass = pass, !.gziped = gz,
                                    !.len0 = FALSE]])
        /\ sloc' = RushSession
        /\ UNCHANGED <<sp, wrk, xids, param, pool, disp, abort, gh>>

\* The other session's fetch fails: its busy objcore is dropped.
Peer_drop ==
    \E i \in BusySlots :
        /\ PeerTurn
        /\ oh.ocs[i].own = "peer"
        /\ oh' = Rushed([oh EXCEPT !.ocs[i] = FreeOC])
        /\ sloc' = RushSession
        /\ UNCHANGED <<sp, wrk, xids, param, pool, disp, abort, gh>>

\* The expiry engine gives up its reference to a cached object.
Expire ==
    \E i \in LiveSlots :
        /\ oh' = [oh EXCEPT !.ocs[i] = IF oh.ocs[i].refcnt = 1 THEN FreeOC
                                       ELSE [@ EXCEPT !.incache = FALSE,
                                                      !.refcnt = @ - 1]]
        /\ UNCHANGED <<sp, wrk, xids, param, pool, disp, sloc, abort, gh>>

Next ==
    \/ CNT_Session_enter \/ CNT_Session_exit
    \/ Step_first \/ Step_wait \/ Step_start \/ Step_recv \/ Step_lookup
    \/ Step_hit \/ Step_miss \/ Step_pass \/ Step_pipe \/ Step_fetch
    \/ Step_fetchbody \/ Step_streambody \/ Step_prepresp \/ Step_deliver
    \/ Step_error \/ Step_done
    \/ Waiter_ready \/ Waiter_close \/ Accept
    \/ Peer_lookup \/ Peer_unbusy \/ Peer_drop \/ Expire

Spec == Init /\ [][Next]_vars

\* ------------------------------------------- runs over chosen input sets
\* The same handlers, driven over a record I of input sets: I.requests the
\* requests clients send, I.recv .. I.error the results the hooks may
\* return, I.vclfetch what vcl_fetch leaves on beresp, I.hdr / I.cl / I.ce /
\* I.bodies what the backend does, I.alloc / I.erralloc the outcomes of the
\* two STV_NewObject calls of cnt_fetchbody / cnt_error, I.waits what
\* cnt_wait finds (c, rx), I.nxt what cnt_done finds in the receive buffer,
\* I.maxreq the number of requests served.

Run_enter(I) ==
    /\ disp = "idle"
    /\ sloc \in {"acceptor", "sched"}
    /\ \E blockfail \in I.blockfail :
          LET m1 == Chk(Chk(Chk(Machine,
                          sp.step \in {"first", "start", "lookup", "recv"},
                          "CNT_Session: entrance state"),
                        ~wrk.obj.valid, "CNT_Session: AZ(wrk->obj)"),
                      wrk.objcore = 0, "CNT_Session: AZ(wrk->objcore)")
              m2 == IF sp.step \in {"first", "start"} /\ blockfail
                    THEN [SES_Close(m1, "error") EXCEPT !.sp.step = "done"]
                    ELSE m1
          IN IF m2.crash # "" THEN Commit(m2) /\ xids' = xids
             ELSE /\ sp' = m2.sp
                  /\ disp' = "loop"
                  /\ sloc' = "worker"
                  /\ UNCHANGED <<wrk, oh, xids, param, pool, abort, gh>>

Run_first == Running("first") /\ Commit(cnt_first(Machine)) /\ xids' = xids

Run_wait(I) ==
    /\ Running("wait")
    /\ \E w \in I.waits, linger \in I.lingers :
          /\ (w[1] = 1 \/ w[2] = 1) => nreq < I.maxreq
          /\ Commit(cnt_wait(Machine, w[1], linger, w[2]))
    /\ xids' = xids

Run_start(I) ==
    /\ Running("start")
    /\ \E rq \in I.requests :
          LET x == (xids + 1) % XidWrap
          IN Commit(cnt_start(Machine, x, rq)) /\ xids' = x

Run_recv(I) ==
    Running("recv") /\ xids' = xids
    /\ \E r \in I.recv : Commit(cnt_recv(Machine, r))

Run_lookup(I) ==
    Running("lookup") /\ xids' = xids
    /\ \E varyl \in I.varyl : Commit(cnt_lookup(Machine, varyl))

Run_hit(I) ==
    Running("hit") /\ xids' = xids
    /\ \E r \in I.hit : Commit(cnt_hit(Machine, r))

Run_miss(I) ==
    Running("miss") /\ xids' = xids
    /\ \E r \in I.miss : Commit(cnt_miss(Machine, r))

Run_pass(I) ==
    Running("pass") /\ xids' = xids
    /\ \E r \in I.pass : Commit(cnt_pass(Machine, r))

Run_pipe(I) ==
    Running("pipe") /\ xids' = xids
    /\ \E r \in I.pipe : Commit(cnt_pipe(Machine, r))

Run_fetch(I) ==
    Running("fetch") /\ xids' = xids
    /\ \E hdr \in I.hdr, cl \in I.cl, vf \in I.vclfetch :
          Commit(cnt_fetch(Machine, hdr, [cl |-> cl], vf))

Run_fetchbody(I) ==
    Running("fetchbody") /\ xids' = xids
    /\ \E ce \in I.ce, a \in I.alloc, cond304 \in I.cond304, body \in I.bodies :
          Commit(cnt_fetchbody(Machine, ce, a[1], a[2], cond304, body))

Run_streambody(I) ==
    Running("streambody") /\ xids' = xids
    /\ \E body \in I.bodies : Commit(cnt_streambody(Machine, body))

Run_prepresp(I) ==
    Running("prepresp") /\ xids' = xids
    /\ \E r \in I.deliver, ub \in NullDeref :
          Commit(cnt_prepresp(Machine, r, ub))

Run_deliver == Running("deliver") /\ xids' = xids /\ Commit(cnt_deliver(Machine))

Run_error(I) ==
    Running("error") /\ xids' = xids
    /\ \E a \in I.erralloc, r \in I.error, len0 \in I.errlen0 :
          Commit(cnt_error(Machine, a[1], a[2], r, len0))

Run_done(I) ==
    Running("done") /\ xids' = xids
    /\ \E nxt \in I.nxt, linger \in I.lingers :
          /\ nxt = "complete" => nreq < I.maxreq
          /\ Commit(cnt_done(Machine, nxt, linger))

\* The other session's fetch ends well, with an object as I.peerobj has it.
Run_peer_unbusy(I) ==
    \E i \in BusySlots, o \in I.peerobj :
        /\ PeerTurn
        /\ oh.ocs[i].own = "peer"
        /\ oh' = Rushed([oh EXCEPT !.ocs[i] =
                     [FreeOC EXCEPT !.st = "live", !.refcnt = 1, !.incache = TRUE,
                                    !.own = "peer", !.pass = o.pass,
                                    !.gziped = o.gziped, !.len0 = o.len0]])
        /\ sloc' = RushSession
        /\ UNCHANGED <<sp, wrk, xids, param, pool, disp, abort, gh>>

Run_waiter_ready(I) ==
    /\ sloc = "waiter" /\ nreq < I.maxreq
    /\ sp' = [sp EXCEPT !.step = "start"]
    /\ sloc' = "sched"
    /\ UNCHANGED <<wrk, oh, xids, param, pool, disp, abort, gh>>

\* ----------------------------------------------------------------- claims

\* The steps in which a request is being served.
RequestSteps == {"recv", "lookup", "hit", "miss", "pass", "pipe", "fetch",
                 "fetchbody", "streambody", "prepresp", "deliver", "error"}

SessBusySlots == {i \in OCSlots : oh.ocs[i].st = "busy" /\ oh.ocs[i].own = "sess"}

\* C1: whenever CNT_Session returns, the worker holds no object and no
\* objcore, whatever the hooks, the backend and the storage did. The loop
\* is left (disp = "exit") with an objcore on the worker when the object
\* allocation fails in fetchbody and again in error.
C1_ReturnHoldsNothing ==
    disp = "exit" => (~wrk.obj.valid /\ wrk.objcore = 0)

\* C2, as claimed: at every entry to done the worker holds no object and
\* no busyobj, the xid is 0 and the workspace is at the session watermark.
C2_DoneEntryAllReset ==
    Running("done") =>
        (~wrk.obj.valid /\ ~wrk.busyobj.valid /\ sp.xid = 0 /\ sp.ws = 0)

\* C2, amended: done is entered without an object on the worker; it is
\* cnt_done that drops the busyobj and zeroes the xid, and it puts the
\* workspace back to the session watermark when the connection stays open.
C2_DoneResets ==
    [][Step_done =>
          /\ ~wrk.obj.valid /\ ~wrk.vbc /\ disp' # "crash"
          /\ ~wrk'.obj.valid
          /\ ~wrk'.busyobj.valid
          /\ sp'.xid = 0
          /\ sp'.fd => sp'.ws = 0]_vars

\* A request that fetched from the backend has been through done on a
\* connection that stays open.
C2_Witness ==
    /\ Running("wait") /\ sp.err_code = 200
    /\ sp.xid = 0 /\ sp.ws = 0 /\ ~wrk.busyobj.valid

\* C3: the session that took the miss branch gives the busy marker back
\* exactly once before its request reaches done. It reaches done with the
\* marker still set when no object can be allocated in fetchbody and in
\* error (the defect of C1).
C3_BusyReleasedBeforeDone ==
    Running("done") => (gh.busy = 0 /\ SessBusySlots = {})

C5_RefsBalanced ==
    /\ Running("done") => gh.held = 0
    /\ gh.held >= 0
    /\ abort \notin {"HSH_Deref of NULL object", "HSH_Drop of NULL object",
                     "deref of free objcore"}

\* A request that prepared a response from an object it held, and was
\* restarted, has reached done with every reference given back.
C5_Witness ==
    /\ Running("done") /\ sp.xid # 0 /\ sp.err_code = 200 /\ gh.held = 0
    /\ sp.ws = 2 /\ sp.doclose = "NULL" /\ wrk.res_mode # {}
    /\ sp.restarts > 0

\* C6: restarts never exceeds max_restarts.
C6_RestartsBounded == sp.restarts <= param.max_restarts

\* The cap is reached and recv has sent the request to error.
C6_Witness ==
    /\ Running("error") /\ param.max_restarts > 0
    /\ sp.restarts = param.max_restarts /\ sp.director

\* C7: recv is entered with no director selected and no object on the
\* worker, on the edge from start and on every restart edge, so the
\* assertions at its head hold.
C7_RecvEntry ==
    /\ Running("recv") => (~sp.director /\ ~wrk.obj.valid /\ sp.vcl)
    /\ abort \notin {"recv: sp->vcl", "recv: AZ(wrk->obj)",
                     "recv: AZ(sp->director)"}

\* recv is entered by a restart.
C7_Witness == Running("recv") /\ sp.restarts > 0

\* C8, as claimed: after a restart recv is entered with the workspace at
\* the request watermark and the request equal to http0.
C8_RestartRollsBack ==
    (Running("recv") /\ sp.restarts > 0) => (sp.ws = 1 /\ sp.http = sp.http0)

\* An edge from hit, fetch, prepresp or error back to recv.
RestartEdge ==
    /\ disp = "loop" /\ sp.step \in {"hit", "fetch", "prepresp", "error"}
    /\ sp'.step = "recv"

\* C8, amended: a restart edge increments restarts and clears the
\* director; it leaves the workspace, the request and both snapshots of
\* cnt_start as the abandoned attempt left them.
C8_RestartKeepsRequest ==
    [][RestartEdge =>
          /\ sp'.restarts = sp.restarts + 1 /\ ~sp'.director
          /\ sp'.ws = sp.ws /\ sp'.http = sp.http /\ sp'.http0 = sp.http0]_vars

\* recv is entered again with the workspace beyond the request watermark
\* and a request that differs from http0.
C8_Witness ==
    Running("recv") /\ sp.restarts > 0 /\ sp.ws = 2 /\ sp.http # sp.http0

\* C9, as claimed: the xid is 0 exactly in first and wait.
C9_XidZeroIffFirstWait ==
    disp = "loop" => (sp.xid = 0 <=> sp.step \in {"first", "wait"})

\* C9, amended: the xid is 0 in first and wait; from recv to the end of
\* delivery it is the value cnt_start took from the counter (which is 0
\* when the counter has wrapped). start is entered with xid 0, and done
\* with either.
C9_XidZeroInFirstWait ==
    disp = "loop" =>
        /\ sp.step \in {"first", "wait"} => sp.xid = 0
        /\ sp.step \in RequestSteps => sp.xid = xids

\* wait is entered from done after a request.
C9_Witness == Running("wait") /\ nreq > 0 /\ sp.xid = 0 /\ wrk.vcl

\* C10: when vcl_deliver returns restart below the cap, on every path to
\* prepresp, the object is released, restarts is incremented, the
\* director and the three header sets are reset and the next state is
\* recv. After a cache hit there is no busyobj, and the restart branch
\* reads wrk->busyobj->do_stream.
C10_DeliverRestart ==
    (Running("prepresp") /\ sp.restarts < param.max_restarts) =>
        \A ub \in NullDeref :
            LET r == cnt_prepresp(Machine, "restart", ub)
            IN /\ r.crash = ""
               /\ ~r.wrk.obj.valid
               /\ r.sp.restarts = sp.restarts + 1
               /\ ~r.sp.director
               /\ ~r.wrk.bereq /\ ~r.wrk.beresp /\ ~r.wrk.resp
               /\ r.sp.step = "recv"


\* ------------------------------------------- the response mode (C11)
\* cnt_prepresp entered with every combination of what the response mode
\* reads: the busyobj (none, or any of its flags, as an abandoned attempt
\* may have left them), wrk->h_content_length, the object's gziped flag,
\* length and ESI data, the ESI nesting, http_gzip_support, the request's
\* Accept-Encoding, wantbody and the protocol version.

PrepRespBusyObjs ==
    {NoBusyObj} \cup
    {[NoBusyObj EXCEPT !.valid = TRUE, !.do_stream = ds, !.do_gzip = gz,
                       !.do_gunzip = gu] : ds \in BOOLEAN, gz \in BOOLEAN,
                                           gu \in BOOLEAN}

PrepRespObjs ==
    {[NoObj EXCEPT !.valid = TRUE, !.gziped = gz, !.len0 = l0, !.esidata = esi] :
        gz \in BOOLEAN, l0 \in BOOLEAN, esi \in BOOLEAN}

InitPrepResp ==
    /\ pool = NoPool
    /\ param \in [max_restarts : {1}, http_gzip_support : BOOLEAN,
                  shortlived : {10}]
    /\ \E bo \in PrepRespBusyObjs, o \in PrepRespObjs, hcl \in BOOLEAN :
          wrk = [NewWorker EXCEPT !.obj = o, !.busyobj = bo,
                                  !.h_content_length = hcl]
    /\ \E lvl \in {0, 1}, wb \in BOOLEAN, p11 \in BOOLEAN, ae \in {"none", "gzip"} :
          sp = [NewSess EXCEPT !.step = "prepresp", !.xid = (InitXids + 1) % XidWrap,
                               !.vcl = TRUE, !.director = TRUE, !.ws = 1,
                               !.esi_level = lvl, !.wantbody = wb,
                               !.proto11 = p11, !.http = ae, !.http0 = ae]
    /\ oh = [ocs |-> [i \in OCSlots |-> FreeOC], waiting |-> FALSE]
    /\ xids = (InitXids + 1) % XidWrap
    /\ disp = "loop"
    /\ sloc = "worker"
    /\ abort = ""
    /\ gh = [held |-> 1, busy |-> 0, hitpass |-> 0]

PrepRespInputs == [deliver |-> {"deliver"}]

NextPrepResp == Run_prepresp(PrepRespInputs)

SpecPrepResp == InitPrepResp /\ [][NextPrepResp]_vars

Framings == {"RES_LEN", "RES_CHUNKED", "RES_EOF"}

\* C11: the response mode cnt_prepresp computes holds at most one of
\* RES_LEN, RES_CHUNKED and RES_EOF, whatever the busyobj, the content
\* length, the object, the ESI nesting, the client and the protocol.
C11_OneFraming ==
    /\ Cardinality(wrk.res_mode \cap Framings) <= 1
    /\ abort = ""

\* cnt_prepresp has computed a mode that gunzips on the fly for an
\* HTTP/1.0 client, framed by EOF.
C11_Witness ==
    /\ sp.step \in {"deliver", "streambody"}
    /\ wrk.res_mode = {"RES_GUNZIP", "RES_EOF"}
    /\ wrk.h_content_length /\ wrk.busyobj.valid /\ ~sp.proto11

\* C12: fetch is entered, from miss and from pass, with a director
\* selected, a busyobj, no backend connection, and h_content_length and
\* storage_hint both NULL (the assertions at the head of cnt_fetch). After
\* an allocation failure in fetchbody the worker keeps the storage hint and
\* the content length of the failed attempt, and the next entry finds them.
C12_FetchEntry ==
    Running("fetch") =>
        /\ sp.director /\ wrk.busyobj.valid /\ ~wrk.vbc
        /\ ~wrk.h_content_length /\ ~wrk.storage_hint

\* ------------------------------------------- the xid counter (C13)
\*
\* Several workers, each with a session of its own, run cnt_start at the
\* same time. "sp->xid = ++xids" takes no lock: the build either loads the
\* counter, adds one in a register and stores it back, copying the register
\* to sp->xid, or it increments the counter in memory and reads it again
\* for sp->xid. Between two requests cnt_done sets sp->xid back to zero.

NWorkers == 2

NStarts == 2

Workers == 1..NWorkers

\* pc: where the worker stands; reg: the register holding the counter;
\* xid: sp->xid of its session; issued: the xids its requests were given
IdleWorker == [pc |-> "start", reg |-> 0, xid |-> 0, issued |-> << >>]

InitXid ==
    /\ pool = [w \in Workers |-> IdleWorker]
    /\ xids \in {1, 2}
    /\ sp = NewSess
    /\ wrk = NewWorker
    /\ oh = [ocs |-> [i \in OCSlots |-> FreeOC], waiting |-> FALSE]
    /\ param \in [max_restarts : {1}, http_gzip_support : {TRUE},
                  shortlived : {10}]
    /\ disp = "idle"
    /\ sloc = "acceptor"
    /\ abort = ""
    /\ gh = NoHistory

\* ++xids, first half: the counter is loaded into a register
Start_load(w) ==
    /\ pool[w].pc = "start"
    /\ pool' = [pool EXCEPT ![w].pc = "store", ![w].reg = xids]
    /\ UNCHANGED <<sp, wrk, oh, xids, param, disp, sloc, abort, gh>>

\* ++xids, second half: register plus one goes to the counter and to sp->xid
Start_store(w) ==
    /\ pool[w].pc = "store"
    /\ LET x == (pool[w].reg + 1) % XidWrap
       IN  /\ xids' = x
           /\ pool' = [pool EXCEPT ![w].pc = "run", ![w].xid = x,
                                   ![w].issued = Append(@, x)]
    /\ UNCHANGED <<sp, wrk, oh, param, disp, sloc, abort, gh>>

\* ++xids as one increment in memory
Start_inc(w) ==
    /\ pool[w].pc = "start"
    /\ xids' = (xids + 1) % XidWrap
    /\ pool' = [pool EXCEPT ![w].pc = "copy"]
    /\ UNCHANGED <<sp, wrk, oh, param, disp, sloc, abort, gh>>

\* sp->xid = the counter, read again after the increment in memory
Start_copy(w) ==
    /\ pool[w].pc = "copy"
    /\ pool' = [pool EXCEPT ![w].pc = "run", ![w].xid = xids,
                            ![w].issued = Append(@, xids)]
    /\ UNCHANGED <<sp, wrk, oh, xids, param, disp, sloc, abort, gh>>

\* the request runs to cnt_done, which resets sp->xid; the session then
\* brings its next request to cnt_start
Pool_done(w) ==
    /\ pool[w].pc = "run"
    /\ pool' = [pool EXCEPT ![w].xid = 0,
                            ![w].pc = IF Len(pool[w].issued) < NStarts
                                      THEN "start" ELSE "end"]
    /\ UNCHANGED <<sp, wrk, oh, xids, param, disp, sloc, abort, gh>>

NextXid ==
    \E w \in Workers :
        \/ Start_load(w)
        \/ Start_store(w)
        \/ Start_inc(w)
        \/ Start_copy(w)
        \/ Pool_done(w)

SpecXid == InitXid /\ [][NextXid]_vars

\* C13: with several workers in cnt_start at once, every request gets an
\* xid no other request has, and the counter never goes down.
C13_UniqueXids ==
    /\ [](\A w1, w2 \in Workers :
            \A k1 \in DOMAIN pool[w1].issued, k2 \in DOMAIN pool[w2].issued :
                <<w1, k1>> # <<w2, k2>>
                    => pool[w1].issued[k1] # pool[w2].issued[k2])
    /\ [][xids' >= xids]_vars

\* ------------------------------------- a gzip miss, not streamed (C14)
\*
\* A new connection brings one complete GET HTTP/1.1 request with
\* Accept-Encoding: gzip; the key is not in the cache; vcl_recv returns
\* lookup, vcl_miss fetch, vcl_fetch deliver without do_stream, vcl_deliver
\* deliver; the backend answers 200 with Content-Encoding: gzip. Left
\* open: max_restarts (not 0: cnt_recv then answers every request with
\* 503), session_linger, the Connection header, Expect:
\* 100-continue, whether the request is complete before cnt_wait polls,
\* a backend connection that has to be retried,
\* the Vary lookup, a Content-Length on the backend reply, do_gzip, a
\* first allocation that fails, the ttl (below or above shortlived), what
\* follows the request on the socket.
InitServing == Init /\ param.max_restarts >= 1

MissGzipInputs ==
    [blockfail |-> {FALSE},
     waits     |-> {<<0, 1>>, <<1, 1>>},
     lingers   |-> Lingers,
     maxreq    |-> 1,
     requests  |-> [done : {0}, close : {"NULL", "Connection: close"},
                    expect : {"none", "100-continue"}, ae : {"gzip"},
                    head : {FALSE}, proto11 : {TRUE}],
     recv      |-> {"lookup"},
     varyl     |-> BOOLEAN,
     miss      |-> {"fetch"},
     hdr       |-> {<<0>>, <<1, 0>>},
     cl        |-> BOOLEAN,
     vclfetch  |-> [ret : {"deliver"}, do_stream : {FALSE}, do_gzip : BOOLEAN,
                    do_gunzip : {FALSE}, do_esi : {FALSE}, ttl : {5, 100}],
     ce        |-> {"gzip"},
     alloc     |-> {<<TRUE, TRUE>>, <<FALSE, TRUE>>},
     cond304   |-> {FALSE},
     bodies    |-> [fail : {FALSE}, len0 : {FALSE}],
     deliver   |-> {"deliver"},
     nxt       |-> {"partial", "empty"}]

NextMissGzip ==
    \/ Run_enter(MissGzipInputs)
    \/ Run_first
    \/ Run_wait(MissGzipInputs)
    \/ Run_waiter_ready(MissGzipInputs)
    \/ Run_start(MissGzipInputs)
    \/ Run_recv(MissGzipInputs)
    \/ Run_lookup(MissGzipInputs)
    \/ Run_miss(MissGzipInputs)
    \/ Run_fetch(MissGzipInputs)
    \/ Run_fetchbody(MissGzipInputs)
    \/ Run_prepresp(MissGzipInputs)
    \/ Run_deliver
    \/ Run_done(MissGzipInputs)
    \/ CNT_Session_exit

SpecMissGzip == InitServing /\ [][NextMissGzip]_vars

\* C14: in this scenario the session goes through first, wait, start,
\* recv, lookup, miss, fetch, fetchbody, prepresp, deliver, done in that
\* order and through nothing else (after done it waits for a next
\* request); the object is stored gzipped, it is no longer busy when
\* prepresp is entered, and the response mode is RES_LEN.
C14_MissGzipTrace ==
    /\ [][sp'.step # sp.step =>
            <<sp.step, sp'.step>> \in
                {<<"first", "wait">>, <<"wait", "start">>, <<"start", "recv">>,
                 <<"recv", "lookup">>, <<"lookup", "miss">>, <<"miss", "fetch">>,
                 <<"fetch", "fetchbody">>, <<"fetchbody", "prepresp">>,
                 <<"prepresp", "deliver">>, <<"deliver", "done">>,
                 <<"done", "wait">>}]_vars
    /\ [](abort = "")
    /\ [](sp.step \in {"prepresp", "deliver"} =>
            /\ wrk.obj.valid /\ wrk.obj.gziped
            /\ wrk.obj.oc # 0 /\ oh.ocs[wrk.obj.oc].st = "live"
            /\ gh.busy = 0 /\ BusySlots = {})
    /\ [](sp.step = "deliver" => wrk.res_mode = {"RES_LEN"})

\* The request was served, its object is in the cache, gzipped, and done
\* has left the connection open.
C14_Witness ==
    /\ sp.step = "wait" /\ nreq = 1 /\ sp.err_code = 200
    /\ LiveSlots # {} /\ \A i \in LiveSlots : oh.ocs[i].gziped
    /\ wrk.res_mode = {"RES_LEN"}

\* --------------------------- a streamed miss, client wants plain (C15)
\*
\* As above, but the client sends no Accept-Encoding, vcl_fetch asks for
\* do_stream and the backend reply carries a Content-Length. Left open as
\* well: whether the body fetch in streambody fails and whether the body
\* is empty.
StreamPlainInputs ==
    [MissGzipInputs EXCEPT
        !.requests = [done : {0}, close : {"NULL", "Connection: close"},
                      expect : {"none", "100-continue"}, ae : {"none"},
                      head : {FALSE}, proto11 : {TRUE}],
        !.cl       = {TRUE},
        !.vclfetch = [ret : {"deliver"}, do_stream : {TRUE}, do_gzip : BOOLEAN,
                      do_gunzip : {FALSE}, do_esi : {FALSE}, ttl : {5, 100}],
        !.bodies   = [fail : BOOLEAN, len0 : BOOLEAN]]

NextStreamPlain ==
    \/ Run_enter(StreamPlainInputs)
    \/ Run_first
    \/ Run_wait(StreamPlainInputs)
    \/ Run_waiter_ready(StreamPlainInputs)
    \/ Run_start(StreamPlainInputs)
    \/ Run_recv(StreamPlainInputs)
    \/ Run_lookup(StreamPlainInputs)
    \/ Run_miss(StreamPlainInputs)
    \/ Run_fetch(StreamPlainInputs)
    \/ Run_fetchbody(StreamPlainInputs)
    \/ Run_prepresp(StreamPlainInputs)
    \/ Run_streambody(StreamPlainInputs)
    \/ Run_done(StreamPlainInputs)
    \/ CNT_Session_exit

SpecStreamPlain == InitServing /\ [][NextStreamPlain]_vars

\* C15: in this scenario prepresp computes RES_GUNZIP and RES_CHUNKED
\* without RES_LEN, the session goes fetchbody, prepresp, streambody, done,
\* and the body is fetched in streambody: fetchbody leaves the backend
\* connection open and the object busy, streambody gives it back.
C15_StreamPlainTrace ==
    /\ [][sp'.step # sp.step =>
            <<sp.step, sp'.step>> \in
                {<<"first", "wait">>, <<"wait", "start">>, <<"start", "recv">>,
                 <<"recv", "lookup">>, <<"lookup", "miss">>, <<"miss", "fetch">>,
                 <<"fetch", "fetchbody">>, <<"fetchbody", "prepresp">>,
                 <<"prepresp", "streambody">>, <<"streambody", "done">>,
                 <<"done", "wait">>}]_vars
    /\ [](abort = "")
    /\ [](sp.step \in {"prepresp", "streambody"} =>
            /\ wrk.vbc /\ wrk.busyobj.do_stream
            /\ wrk.obj.valid /\ wrk.obj.gziped
            /\ wrk.obj.oc # 0 /\ oh.ocs[wrk.obj.oc].st = "busy")
    /\ [](sp.step = "streambody" =>
            wrk.res_mode = {"RES_GUNZIP", "RES_CHUNKED"})
    /\ [](sp.step = "done" => ~wrk.vbc /\ BusySlots = {})

\* The body was streamed to the client and the object entered the cache.
C15_Witness ==
    /\ sp.step = "done" /\ sp.xid # 0 /\ sp.doclose = "NULL"
    /\ wrk.res_mode = {"RES_GUNZIP", "RES_CHUNKED"}
    /\ LiveSlots # {} /\ ~wrk.vbc

\* ------------------------------------------------- hit-for-pass (C16)
\*
\* Two requests for the same key on one connection. The first misses;
\* vcl_fetch returns hit_for_pass or deliver, so the second finds an
\* objcore flagged OC_F_PASS or an ordinary object. No streaming; vcl_hit
\* and vcl_pass return their defaults.
HitPassInputs ==
    [hit |-> {"deliver"}, pass |-> {"pass"}] @@
    [MissGzipInputs EXCEPT
        !.maxreq   = 2,
        !.vclfetch = [ret : {"deliver", "hit_for_pass"}, do_stream : {FALSE},
                      do_gzip : {FALSE}, do_gunzip : {FALSE}, do_esi : {FALSE},
                      ttl : {5, 100}],
        !.nxt      = {"complete", "partial", "empty"}]

NextHitPass ==
    \/ Run_enter(HitPassInputs)
    \/ Run_first
    \/ Run_wait(HitPassInputs)
    \/ Run_waiter_ready(HitPassInputs)
    \/ Run_start(HitPassInputs)
    \/ Run_recv(HitPassInputs)
    \/ Run_lookup(HitPassInputs)
    \/ Run_hit(HitPassInputs)
    \/ Run_miss(HitPassInputs)
    \/ Run_pass(HitPassInputs)
    \/ Run_fetch(HitPassInputs)
    \/ Run_fetchbody(HitPassInputs)
    \/ Run_prepresp(HitPassInputs)
    \/ Run_deliver
    \/ Run_done(HitPassInputs)
    \/ CNT_Session_exit

SpecHitPass == InitServing /\ [][NextHitPass]_vars

\* C16: a lookup that finds a non-busy objcore flagged OC_F_PASS counts a
\* cache_hitpass, gives the reference back and goes to pass with neither
\* object nor objcore, never to hit; the fetch that follows is a pass (no
\* objcore, ttl -1, the objhead untouched: nothing inserted, nothing
\* unbusied), and the request goes lookup, pass, fetch, fetchbody,
\* prepresp, deliver, done.
C16_HitForPass ==
    /\ [][(Running("lookup") /\ sp'.step # "lookup"
           /\ \E i \in LiveSlots : oh.ocs[i].pass) =>
              /\ sp'.step = "pass"
              /\ ~wrk'.obj.valid /\ wrk'.objcore = 0
              /\ gh'.hitpass = gh.hitpass + 1
              /\ gh'.held = gh.held /\ oh'.ocs = oh.ocs]_vars
    /\ [][(gh.hitpass > 0 /\ sp'.step # sp.step) =>
              /\ <<sp.step, sp'.step>> \in
                    {<<"pass", "fetch">>, <<"fetch", "fetchbody">>,
                     <<"fetchbody", "prepresp">>, <<"prepresp", "deliver">>,
                     <<"deliver", "done">>, <<"done", "wait">>,
                     <<"wait", "start">>, <<"done", "start">>}
              /\ oh' = oh]_vars
    /\ [](gh.hitpass > 0 /\ sp.step \in {"fetch", "fetchbody"} =>
              wrk.objcore = 0 /\ ~wrk.obj.valid)
    /\ [](gh.hitpass > 0 /\ sp.step \in {"prepresp", "deliver"} =>
              wrk.obj.valid /\ wrk.obj.oc = 0 /\ wrk.obj.ttl = -1)
    /\ [](abort = "")

\* The second request found the hit-for-pass object and was served as a
\* pass; the object is still the only one in the cache.
C16_Witness ==
    /\ Running("done") /\ sp.err_code = 200 /\ nreq = 2 /\ gh.hitpass = 1
    /\ \E i \in LiveSlots : oh.ocs[i].pass /\ oh.ocs[i].refcnt = 1

\* --------------------------------- methods, versions, encodings at large
\*
\* One request on a new connection, GET or HEAD, HTTP/1.0 or 1.1, with or
\* without Accept-Encoding: gzip, http_gzip_support on or off; the hooks
\* return what they may (pipe left aside); vcl_fetch sets do_stream,
\* do_gzip and do_gunzip as it likes; the backend's Content-Encoding is
\* gzip, absent or something else; another session may have put an
\* object, gzipped or not, empty or not, into the cache.
InitWide ==
    /\ pool = NoPool
    /\ sp = NewSess
    /\ wrk = NewWorker
    /\ oh = [ocs |-> [i \in OCSlots |-> FreeOC], waiting |-> FALSE]
    /\ xids = InitXids
    /\ param \in [max_restarts : {MaxRestartsParam},
                  http_gzip_support : BOOLEAN, shortlived : {10}]
    /\ disp = "idle"
    /\ sloc = "acceptor"
    /\ abort = ""
    /\ gh = NoHistory

WideInputs ==
    [blockfail |-> {FALSE},
     waits     |-> {<<1, 1>>},
     lingers   |-> {0},
     maxreq    |-> 1,
     requests  |-> [done : {0}, close : {"NULL"}, expect : {"none"},
                    ae : {"none", "gzip"}, head : BOOLEAN, proto11 : BOOLEAN],
     recv      |-> {"lookup", "pass", "error"},
     varyl     |-> {FALSE},
     hit       |-> Hooks.hit,
     miss      |-> Hooks.miss,
     pass      |-> Hooks.pass,
     hdr       |-> {<<0>>},
     cl        |-> BOOLEAN,
     vclfetch  |-> [ret : Hooks.fetch, do_stream : BOOLEAN, do_gzip : BOOLEAN,
                    do_gunzip : BOOLEAN, do_esi : {FALSE}, ttl : {100}],
     ce        |-> {"gzip", "none", "other"},
     alloc     |-> {<<TRUE, TRUE>>},
     cond304   |-> BOOLEAN,
     bodies    |-> [fail : BOOLEAN, len0 : BOOLEAN],
     deliver   |-> Hooks.deliver,
     erralloc  |-> {<<TRUE, TRUE>>},
     error     |-> Hooks.error,
     errlen0   |-> BOOLEAN,
     nxt       |-> {"empty", "partial"},
     peerobj   |-> [pass : {FALSE}, gziped : BOOLEAN, len0 : BOOLEAN]]

NextWide ==
    \/ Run_enter(WideInputs)
    \/ Run_first
    \/ Run_wait(WideInputs)
    \/ Run_start(WideInputs)
    \/ Run_recv(WideInputs)
    \/ Run_lookup(WideInputs)
    \/ Run_hit(WideInputs)
    \/ Run_miss(WideInputs)
    \/ Run_pass(WideInputs)
    \/ Run_fetch(WideInputs)
    \/ Run_fetchbody(WideInputs)
    \/ Run_streambody(WideInputs)
    \/ Run_prepresp(WideInputs)
    \/ Run_deliver
    \/ Run_error(WideInputs)
    \/ Run_done(WideInputs)
    \/ CNT_Session_exit
    \/ Peer_lookup
    \/ Run_peer_unbusy(WideInputs)

SpecWide == InitWide /\ [][NextWide]_vars

\* C17: for a HEAD request wantbody is false whenever prepresp is entered,
\* whatever led there, fetchbody leaves do_stream false, and the request
\* never comes to streambody. cnt_error sets wantbody before it goes to
\* prepresp, for a HEAD request as for any other.
C17_HeadNoBody ==
    /\ []((sp.head /\ Running("prepresp")) => ~sp.wantbody)
    /\ [](sp.head => sp.step # "streambody")
    /\ [][(sp.head /\ Running("fetchbody") /\ disp' # "crash"
           /\ sp'.step # "fetchbody") => ~wrk'.busyobj.do_stream]_vars

\* C18, as claimed: for a HEAD request of a client that accepts gzip, with
\* the object stored gzipped (a cache hit, a body that came gzipped, or a
\* body gzipped by this fetch), prepresp goes to deliver, not streambody,
\* with RES_LEN in the response mode.
C18_HeadGzipLen ==
    [][(/\ Running("prepresp") /\ sp.head /\ RFC2616_Req_Gzip(sp.http)
        /\ wrk.obj.valid /\ wrk.obj.gziped
        /\ disp' # "crash" /\ sp'.step \notin {"prepresp", "recv"}) =>
            /\ sp'.step = "deliver"
            /\ "RES_LEN" \in wrk'.res_mode]_vars

\* C18, amended: for such a request prepresp goes to deliver, not
\* streambody, and the response mode is RES_LEN, unless the busyobj on the
\* worker has do_gzip or do_gunzip set and the body is not empty: then the
\* response mode is empty. A body gzipped by this fetch gets RES_LEN only
\* when it is empty.
C18_HeadGzipLenUnlessFilter ==
    [][(/\ Running("prepresp") /\ sp.head /\ RFC2616_Req_Gzip(sp.http)
        /\ wrk.obj.valid /\ wrk.obj.gziped
        /\ disp' # "crash" /\ sp'.step \notin {"prepresp", "recv"}) =>
            /\ sp'.step = "deliver"
            /\ wrk'.res_mode =
                  IF /\ wrk.busyobj.valid
                     /\ wrk.busyobj.do_gzip \/ wrk.busyobj.do_gunzip
                     /\ ~wrk.obj.len0
                  THEN {} ELSE {"RES_LEN"}]_vars

\* A HEAD request whose body this fetch gzipped is about to be delivered
\* with no framing chosen.
C18_Witness ==
    /\ Running("deliver") /\ sp.head /\ RFC2616_Req_Gzip(sp.http)
    /\ wrk.obj.valid /\ wrk.obj.gziped /\ ~wrk.obj.len0
    /\ wrk.busyobj.valid /\ wrk.busyobj.do_gzip /\ wrk.busyobj.is_gunzip
    /\ wrk.res_mode = {} /\ sp.restarts = 0

\* C19: when prepresp finds no length (the rules on the busyobj give no
\* RES_LEN, or the object has to be gunzipped), the body is not empty or
\* is still being fetched, wantbody is set and the client speaks less
\* than HTTP/1.1, it selects RES_EOF and sets doclose to "EOF mode"; a
\* reason to close stays with the request, cnt_done closes the connection,
\* and the session goes back neither to wait nor to start.
C19_EofModeCloses ==
    /\ [][(/\ Running("prepresp") /\ disp' # "crash" /\ wrk.obj.valid
           /\ \/ PrepRespLenRules(wrk.busyobj, wrk.h_content_length) = {}
              \/ /\ param.http_gzip_support /\ wrk.obj.gziped
                 /\ ~RFC2616_Req_Gzip(sp.http)
           /\ ~wrk.obj.len0 \/ (wrk.busyobj.valid /\ wrk.busyobj.do_stream)
           /\ sp.wantbody /\ ~sp.proto11) =>
              /\ "RES_EOF" \in wrk'.res_mode
              /\ sp'.doclose = "EOF mode"]_vars
    /\ [][sp.doclose = "EOF mode" => sp'.doclose # "NULL"]_vars
    /\ [][(Running("done") /\ sp.doclose # "NULL" /\ disp' # "crash") =>
              ~sp'.fd /\ disp' = "exit" /\ sp'.step = "done"]_vars
    /\ [](sp.doclose # "NULL" => sp.step \notin {"wait", "start"})

\* An HTTP/1.0 request was answered in EOF mode and cnt_done has closed
\* the connection.
C19_Witness ==
    /\ sp.step = "done" /\ disp = "exit" /\ ~sp.fd /\ ~sp.proto11
    /\ sp.doclose = "EOF mode" /\ "RES_EOF" \in wrk.res_mode

\* ---------------------------------------- the encoding table (C20)
\*
\* The table of the specification: from the class of the backend's
\* Content-Encoding and the two hints to <<filter, stored gzipped>>;
\* "none" is the pass-through filter.
EncodingTable(ce, gunzip, gzip) ==
    IF ce = "gzip" THEN (IF gunzip THEN <<"gunzip", FALSE>>
                         ELSE <<"testgzip", TRUE>>)
    ELSE IF ce = "none" THEN (IF gzip THEN <<"gzip", TRUE>>
                              ELSE <<"none", FALSE>>)
    ELSE <<"none", FALSE>>

\* The class of Content-Encoding that cnt_fetchbody recorded in a busyobj.
EncodingOf(bo) ==
    IF bo.is_gzip THEN "gzip" ELSE IF bo.is_gunzip THEN "none" ELSE "other"

\* C20, as claimed: the filter and the gziped flag cnt_fetchbody leaves
\* are those of the table for the backend's Content-Encoding and the hints
\* vcl_fetch left; do_gzip and do_gunzip are not both set afterwards; a
\* second negotiation over its own result changes nothing. (The filter is
\* seen where fetchbody hands a streaming fetch on; the flag wherever it
\* made an object.)
C20_EncodingTable ==
    [][(Running("fetchbody") /\ disp' # "crash" /\ sp'.step = "prepresp") =>
          LET bo  == wrk'.busyobj
              row == EncodingTable(EncodingOf(bo), wrk.busyobj.do_gunzip,
                                   wrk.busyobj.do_gzip)
          IN /\ wrk'.obj.gziped = row[2]
             /\ bo.do_stream => bo.vfp = row[1]
             /\ ~(bo.do_gzip /\ bo.do_gunzip)
             /\ bo.do_stream =>
                  /\ FetchbodyEncoding(param.http_gzip_support, EncodingOf(bo), bo) = bo
                  /\ FetchbodyGziped(bo) = wrk'.obj.gziped]_vars

\* C20, amended: as claimed when http_gzip_support is on; when it is off
\* both hints are ignored, and the row of the table is the one for the
\* Content-Encoding with no hint.
C20_EncodingTableWithSupport ==
    [][(Running("fetchbody") /\ disp' # "crash" /\ sp'.step = "prepresp") =>
          LET bo  == wrk'.busyobj
              row == EncodingTable(EncodingOf(bo),
                        param.http_gzip_support /\ wrk.busyobj.do_gunzip,
                        param.http_gzip_support /\ wrk.busyobj.do_gzip)
          IN /\ wrk'.obj.gziped = row[2]
             /\ bo.do_stream => bo.vfp = row[1]
             /\ ~(bo.do_gzip /\ bo.do_gunzip)
             /\ bo.do_stream =>
                  /\ FetchbodyEncoding(param.http_gzip_support, EncodingOf(bo), bo) = bo
                  /\ FetchbodyGziped(bo) = wrk'.obj.gziped]_vars

\* A streaming fetch of a gzipped body with the gunzip hint has chosen
\* the gunzip filter; the object is stored plain.
C20_Witness ==
    /\ Running("prepresp") /\ param.http_gzip_support
    /\ wrk.busyobj.valid /\ wrk.busyobj.do_stream /\ wrk.busyobj.is_gzip
    /\ wrk.busyobj.vfp = "gunzip" /\ wrk.busyobj.do_gunzip /\ ~wrk.busyobj.do_gzip
    /\ wrk.obj.valid /\ ~wrk.obj.gziped

\* ------------------------------------------------ the error state (C21)

\* C21, as claimed: a request that goes through error and is not restarted
\* goes on to prepresp with doclose = "error" and wantbody set, its
\* connection is closed in done and not used again; error goes back to
\* recv only below the restart cap, and then with the object dropped, the
\* director cleared and one more restart counted.
C21_ErrorDelivers ==
    /\ [][(Running("error") /\ disp' # "crash"
           /\ sp'.step \notin {"error", "recv"}) =>
              /\ sp'.step = "prepresp"
              /\ sp'.doclose = "error" /\ sp'.wantbody]_vars
    /\ [][(Running("error") /\ disp' # "crash" /\ sp'.step = "recv") =>
              /\ sp.restarts < param.max_restarts
              /\ sp'.restarts = sp.restarts + 1
              /\ ~sp'.director /\ ~wrk'.obj.valid
              /\ gh'.busy = 0 /\ SessBusySlots' = {}]_vars
    /\ [][(sp.doclose = "error" /\ sp.fd) =>
              sp'.doclose # "NULL"]_vars
    /\ [][(Running("done") /\ sp.doclose # "NULL" /\ disp' # "crash"
           /\ sp' # sp) =>
              ~sp'.fd /\ disp' = "exit" /\ sp'.step = "done"]_vars
    /\ [](sp.doclose = "error" => sp.step \notin {"wait", "start"})

\* C21, amended: as claimed for a request whose error object could be
\* allocated; when both allocations fail the request goes from error
\* straight to done, without an object, with doclose = "Out of objects".
\* Either way the connection is closed in done and not used again.
C21_ErrorDeliversOrRunsOut ==
    /\ [][(Running("error") /\ disp' # "crash"
           /\ sp'.step \notin {"error", "recv"}) =>
              \/ /\ sp'.step = "prepresp" /\ wrk'.obj.valid
                 /\ sp'.doclose = "error" /\ sp'.wantbody
              \/ /\ sp'.step = "done" /\ ~wrk'.obj.valid
                 /\ sp'.doclose = "Out of objects"]_vars
    /\ [][(Running("error") /\ disp' # "crash" /\ sp'.step = "recv") =>
              /\ sp.restarts < param.max_restarts
              /\ sp'.restarts = sp.restarts + 1
              /\ ~sp'.director /\ ~wrk'.obj.valid
              /\ gh'.busy = 0 /\ SessBusySlots' = {}]_vars
    /\ [][(sp.doclose \in {"error", "Out of objects"} /\ sp.fd) =>
              sp'.doclose # "NULL"]_vars
    /\ [][(Running("done") /\ sp.doclose # "NULL" /\ disp' # "crash"
           /\ sp' # sp) =>
              ~sp'.fd /\ disp' = "exit" /\ sp'.step = "done"]_vars
    /\ [](sp.doclose \in {"error", "Out of objects"} =>
              sp.step \notin {"wait", "start"})

\* A request ran out of objects in error and cnt_done has closed its
\* connection.
C21_Witness ==
    /\ sp.step = "done" /\ disp = "exit" /\ ~sp.fd
    /\ sp.doclose = "Out of objects" /\ ~wrk.obj.valid
    /\ param.max_restarts > 0

\* ---------------------------------------------------------------------
\* Recycling a kept-alive connection (C22)
\* ---------------------------------------------------------------------

\* C22: whenever cnt_done continues to start or wait, the session is as
\* cnt_first leaves a fresh connection: restarts 0, xid 0, no VCL reference
\* on the session, no object on the worker, no director, esi_level 0 and
\* the workspace at the session watermark; and no assertion at the entry
\* of cnt_start or cnt_wait ever fails.
C22_RecycledAsFresh ==
    /\ [][(Running("done") /\ disp' = "loop"
           /\ sp'.step \in {"start", "wait"}) =>
              LET fresh == cnt_first([Machine EXCEPT !.sp = NewSess]).sp
              IN /\ sp'.restarts = fresh.restarts /\ sp'.restarts = 0
                 /\ sp'.xid = fresh.xid /\ sp'.xid = 0
                 /\ sp'.vcl = fresh.vcl /\ ~sp'.vcl
                 /\ sp'.director = fresh.director /\ ~sp'.director
                 /\ sp'.esi_level = fresh.esi_level /\ sp'.esi_level = 0
                 /\ sp'.ws = fresh.ws /\ sp'.ws = 0
                 /\ ~wrk'.obj.valid
                 /\ sp'.fd /\ sp'.doclose = "NULL"]_vars
    /\ [](abort \notin {"start: AZ(restarts)", "start: AZ(wrk->obj)",
                        "start: AZ(sp->vcl)", "start: AZ(esi_level)",
                        "wait: AZ(sp->vcl)", "wait: AZ(wrk->obj)",
                        "wait: AZ(esi_level)", "wait: xid == 0"})

\* A connection that has served a request (wantbody is set by cnt_recv
\* only) is back in start with the session of a fresh connection.
C22_Witness ==
    /\ Running("start") /\ sp.wantbody /\ sp.fd
    /\ sp.restarts = 0 /\ sp.xid = 0 /\ ~sp.vcl /\ sp.ws = 0
    /\ ~wrk.obj.valid

\* ---------------------------------------------------------------------
\* The restart cap in recv (C23)
\* ---------------------------------------------------------------------

\* C23: cnt_recv diverts to error (503 when no code is present) only when
\* restarts > max_restarts; with restarts <= max_restarts, a first attempt
\* under max_restarts = 0 and an attempt at restarts = max_restarts
\* included, every hook result is dispatched to its own state.
C23_DivertAboveCap ==
    /\ [][(Running("recv") /\ disp' # "crash" /\ sp'.step # "recv") =>
              IF sp.restarts > param.max_restarts
              THEN /\ sp'.step = "error"
                   /\ sp'.err_code = IF sp.err_code = 0 THEN 503
                                     ELSE sp.err_code
              ELSE /\ sp'.step \in Hooks.recv
                   /\ sp'.err_code = sp.err_code]_vars
    /\ [](Running("recv") /\ sp.restarts <= param.max_restarts =>
             \A r \in Hooks.recv :
                 LET n == cnt_recv(Machine, r)
                 IN n.crash = "" => n.sp.step = r)

\* C23, amended: the cap is reached at restarts = max_restarts. cnt_recv
\* diverts to error (503 when no code is present) exactly when
\* restarts >= max_restarts, whatever the hook returned; with
\* restarts < max_restarts every hook result is dispatched to its own
\* state.
C23_DivertAtCap ==
    /\ [][(Running("recv") /\ disp' # "crash" /\ sp'.step # "recv") =>
              IF sp.restarts >= param.max_restarts
              THEN /\ sp'.step = "error"
                   /\ sp'.err_code = IF sp.err_code = 0 THEN 503
                                     ELSE sp.err_code
              ELSE /\ sp'.step \in Hooks.recv
                   /\ sp'.err_code = sp.err_code]_vars
    /\ [](Running("recv") /\ sp.restarts < param.max_restarts =>
             \A r \in Hooks.recv :
                 LET n == cnt_recv(Machine, r)
                 IN n.crash = "" => n.sp.step = r)

\* A restarted request at restarts = max_restarts was refused by cnt_recv
\* with 503 and is in error with the director cnt_recv selected.
C23_Witness ==
    /\ Running("error") /\ sp.err_code = 503 /\ sp.director
    /\ param.max_restarts > 0 /\ sp.restarts = param.max_restarts
    /\ ~wrk.obj.valid /\ ~wrk.busyobj.valid

\* ---------------------------------------------------------------------
\* The end of a streamed delivery (C24)
\* ---------------------------------------------------------------------

\* C24: cnt_streambody sets doclose to "Stream error" if and only if the
\* streamed fetch failed; after a successful fetch, of a cacheable object
\* or of a pass object, doclose is what it was. Either way the object
\* reference is released and the next state is done.
C24_StreamErrorIffFailed ==
    Running("streambody") =>
        \A body \in Bodies :
            LET n == cnt_streambody(Machine, body)
            IN n.crash = "" =>
                  /\ n.sp.step = "done" /\ ~n.wrk.obj.valid
                  /\ (n.sp.doclose = "Stream error") <=> body.fail
                  /\ ~body.fail => n.sp.doclose = sp.doclose

\* ---------------------------------------------------------------------
\* Allocation failure in fetchbody (C25)
\* ---------------------------------------------------------------------

\* C25: in cnt_fetchbody, when the preferred storage fails and the
\* Transient retry succeeds, the object carries ttl <= shortlived and
\* grace 0 (keep is not modelled; it is set where grace is); when the
\* retry fails too, err_code is 503, the backend connection is closed, the
\* worker holds no object and the next state is error.
C25_SalvagedObjectClamped ==
    Running("fetchbody") =>
        \A ce \in Encodings, cond304 \in BOOLEAN, body \in Bodies :
            LET salvaged == cnt_fetchbody(Machine, ce, FALSE, TRUE,
                                          cond304, body)
                none     == cnt_fetchbody(Machine, ce, FALSE, FALSE,
                                          cond304, body)
            IN /\ (salvaged.crash = "" /\ salvaged.wrk.obj.valid) =>
                      /\ salvaged.wrk.obj.ttl <= param.shortlived
                      /\ salvaged.wrk.obj.grace = 0
               /\ none.crash = "" =>
                      /\ none.sp.err_code = 503 /\ none.sp.step = "error"
                      /\ ~none.wrk.vbc /\ ~none.wrk.obj.valid

\* ---------------------------------------------------------------------
\* Leaving fetch without a body (C26)
\* ---------------------------------------------------------------------

C27_StaleBusyObjInert ==
    /\ Running("streambody") =>
          /\ wrk.busyobj.valid /\ wrk.busyobj.do_stream
          /\ wrk.obj.valid /\ AssertObjCorePassOrBusy(Machine, wrk.obj.oc)
    /\ Running("hit") =>
          LET n     == cnt_hit(Machine, "deliver")
              clean == [n EXCEPT !.wrk.busyobj = NoBusyObj]
              a     == cnt_prepresp(n, "deliver", "false")
              b     == cnt_prepresp(clean, "deliver", "false")
          IN n.crash = "" =>
                /\ a.crash = "" /\ a.sp.step = "deliver"
                /\ a.wrk.res_mode = b.wrk.res_mode
                /\ a.sp.doclose = b.sp.doclose
    /\ Running("error") =>
          \A a1 \in BOOLEAN, a2 \in BOOLEAN, len0 \in BOOLEAN :
              LET n == cnt_error(Machine, a1, a2, "deliver", len0)
                  a == cnt_prepresp(n, "deliver", "false")
              IN (n.crash = "" /\ n.sp.step = "prepresp") =>
                     a.crash = "" /\ a.sp.step = "deliver"

\* ---------------------------------------------------------------------
\* Streaming or buffering in fetchbody (C28)
\* ---------------------------------------------------------------------

\* C28: cnt_fetchbody goes to prepresp with the body still to be fetched
\* (backend connection held, objcore still busy) exactly when vcl_fetch
\* asked for do_stream and ESI processing is off, esi_level is 0, wantbody
\* is true and no 304 reply is possible. In every other case the body
\* fetch runs inside fetchbody: on failure the next state is error and the
\* object is gone, on success prepresp is entered with the object of an
\* objcore in the expiry list and no longer busy. The ESI cases, which no
\* request of the model produces, are evaluated on the reachable
\* fetchbody states with do_esi and esi_level set.
C28_StreamOrBuffer ==
    Running("fetchbody") =>
        \A ce \in WideInputs.ce, cond304 \in BOOLEAN,
           body \in WideInputs.bodies, esi \in BOOLEAN, lvl \in {0, 1} :
            LET m == [Machine EXCEPT !.wrk.busyobj.do_esi = esi,
                                     !.sp.esi_level = lvl]
                n == cnt_fetchbody(m, ce, TRUE, TRUE, cond304, body)
                early == /\ wrk.busyobj.do_stream /\ ~esi /\ lvl = 0
                         /\ sp.wantbody /\ ~cond304
                i == n.wrk.obj.oc
            IN n.crash = "" =>
                  IF early
                  THEN /\ n.sp.step = "prepresp" /\ n.wrk.busyobj.do_stream
                       /\ n.wrk.vbc /\ n.wrk.obj.valid
                       /\ i # 0 => (n.oh.ocs[i].st = "busy"
                                    /\ ~n.oh.ocs[i].incache)
                  ELSE /\ ~n.wrk.busyobj.do_stream /\ ~n.wrk.vbc
                       /\ IF body.fail
                          THEN n.sp.step = "error" /\ ~n.wrk.obj.valid
                          ELSE /\ n.sp.step = "prepresp" /\ n.wrk.obj.valid
                               /\ i # 0 => (n.oh.ocs[i].st = "live"
                                            /\ n.oh.ocs[i].incache)

\* A HEAD request whose fetch hook asked for streaming was buffered: it is
\* in prepresp with its object in the cache, not busy, and the backend
\* connection gone.
C28_Witness ==
    /\ Running("prepresp") /\ ~sp.wantbody /\ sp.head
    /\ wrk.busyobj.valid /\ ~wrk.busyobj.do_stream /\ ~wrk.vbc
    /\ wrk.obj.valid /\ wrk.obj.oc # 0
    /\ oh.ocs[wrk.obj.oc].st = "live" /\ oh.ocs[wrk.obj.oc].incache
    /\ oh.ocs[wrk.obj.oc].own = "sess"

\* ---------------------------------------------------------------------
\* The framing fallback of prepresp (C29)
\* ---------------------------------------------------------------------

\* C29: when prepresp has no RES_LEN after the busyobj rules and the ESI
\* and gunzip adjustments, it sets RES_LEN for every object of length
\* zero; otherwise nothing when wantbody is false; otherwise RES_CHUNKED
\* for an HTTP/1.1 client; otherwise RES_EOF, with doclose "EOF mode".
C29_FallbackEveryEmpty ==
    [][(Running("prepresp") /\ disp' # "crash" /\ sp'.step # "prepresp"
        /\ ~(/\ "RES_LEN" \in PrepRespLenRules(wrk.busyobj,
                                               wrk.h_content_length)
             /\ ~wrk.obj.esidata /\ sp.esi_level = 0
             /\ ~(param.http_gzip_support /\ wrk.obj.gziped
                  /\ ~RFC2616_Req_Gzip(sp.http)))) =>
           /\ wrk'.res_mode \cap Framings =
                 IF wrk.obj.len0 THEN {"RES_LEN"}
                 ELSE IF ~sp.wantbody THEN {}
                 ELSE IF sp.proto11 THEN {"RES_CHUNKED"}
                 ELSE {"RES_EOF"}
           /\ "RES_EOF" \in wrk'.res_mode => sp'.doclose = "EOF mode"]_vars

\* C29, amended: the empty-body rule takes an object of length zero only
\* when its body is not being streamed (no busyobj, or do_stream false);
\* the object of a streaming fetch, whose body has not arrived, goes on to
\* the wantbody, HTTP/1.1 and EOF rules.
C29_FallbackEmptyUnlessStreaming ==
    [][(Running("prepresp") /\ disp' # "crash" /\ sp'.step # "prepresp"
        /\ ~(/\ "RES_LEN" \in PrepRespLenRules(wrk.busyobj,
                                               wrk.h_content_length)
             /\ ~wrk.obj.esidata /\ sp.esi_level = 0
             /\ ~(param.http_gzip_support /\ wrk.obj.gziped
                  /\ ~RFC2616_Req_Gzip(sp.http)))) =>
           /\ wrk'.res_mode \cap Framings =
                 IF wrk.obj.len0
                    /\ (~wrk.busyobj.valid \/ ~wrk.busyobj.do_stream)
                 THEN {"RES_LEN"}
                 ELSE IF ~sp.wantbody THEN {}
                 ELSE IF sp.proto11 THEN {"RES_CHUNKED"}
                 ELSE {"RES_EOF"}
           /\ "RES_EOF" \in wrk'.res_mode => sp'.doclose = "EOF mode"]_vars

\* A streaming response without a Content-Length from the backend is in
\* streambody, chunked, its object still of length zero.
C29_Witness ==
    /\ Running("streambody") /\ wrk.obj.len0
    /\ wrk.busyobj.valid /\ wrk.busyobj.do_stream
    /\ ~wrk.h_content_length /\ "RES_CHUNKED" \in wrk.res_mode

\* ---------------------------------------------------------------------
\* The fate of the connection in done (C30)
\* ---------------------------------------------------------------------

\* C30: for a top-level request cnt_done decides in this order: socket
\* closed or doclose set: the socket is closed, the session deleted and
\* the worker released; else a complete next request: state start, the
\* worker goes on; else a partial request or session_linger > 0: state
\* wait, the worker goes on; else the session is parked on the waiter and
\* the worker released. No session with doclose set is in start or wait.
C30_DoneOrder ==
    /\ [](Running("done") /\ sp.esi_level = 0 =>
             \A nxt \in {"complete", "partial", "empty"}, linger \in Lingers :
                 LET n == cnt_done(Machine, nxt, linger)
                 IN n.crash = "" =>
                       IF ~sp.fd \/ sp.doclose # "NULL"
                       THEN n.ret = 1 /\ n.park = "deleted" /\ ~n.sp.fd
                       ELSE IF nxt = "complete"
                       THEN n.ret = 0 /\ n.sp.step = "start" /\ n.sp.fd
                       ELSE IF nxt = "partial" \/ linger > 0
                       THEN n.ret = 0 /\ n.sp.step = "wait" /\ n.sp.fd
                       ELSE n.ret = 1 /\ n.park = "waiter" /\ n.sp.fd)
    /\ [][(Running("done") /\ (disp' = "exit" \/ sp'.step # "done")) =>
              IF ~sp.fd \/ sp.doclose # "NULL"
              THEN disp' = "exit" /\ sloc' = "deleted" /\ ~sp'.fd
              ELSE \/ /\ disp' = "loop" /\ sp'.step \in {"start", "wait"}
                      /\ sp'.fd /\ sloc' = sloc
                   \/ disp' = "exit" /\ sloc' = "waiter" /\ sp'.fd]_vars
    /\ [](sp.doclose # "NULL" => sp.step \notin {"wait", "start"})

\* A request with Connection: close was served and cnt_done has deleted
\* its session.
C30_Witness ==
    /\ sp.step = "done" /\ disp = "exit" /\ sloc = "deleted" /\ ~sp.fd
    /\ sp.doclose = "Connection: close" /\ sp.err_code = 200
    /\ sp.xid = 0 /\ ~wrk.obj.valid

\* ---------------------------------------------------------------------
\* done inside an ESI child (C31)
\* ---------------------------------------------------------------------
\*
\* The request of an ESI include runs on the session and worker of the
\* response that includes it: CNT_Session is entered in recv with
\* esi_level raised, the xid, VCL reference, socket and doclose of the
\* parent, no object on the worker, and the parent's busyobj, if it had
\* one, still there.
InitEsi ==
    /\ pool = NoPool
    /\ \E lvl \in 1..MaxEsiLevel, dc \in {"NULL", "Connection: close"},
          ae \in {"none", "gzip"} :
          sp = [NewSess EXCEPT !.step = "recv", !.esi_level = lvl,
                               !.xid = InitXids + 1, !.vcl = TRUE,
                               !.doclose = dc, !.wantbody = TRUE,
                               !.ws = 1, !.http = ae, !.http0 = ae]
    /\ \E bo \in BOOLEAN :
          wrk = [NewWorker EXCEPT !.busyobj.valid = bo]
    /\ oh = [ocs |-> [i \in OCSlots |-> FreeOC], waiting |-> FALSE]
    /\ xids = InitXids + 1
    /\ param \in [max_restarts : {MaxRestartsParam},
                  http_gzip_support : {TRUE}, shortlived : {10}]
    /\ disp = "idle"
    /\ sloc = "sched"
    /\ abort = ""
    /\ gh = NoHistory

EsiInputs ==
    [WideInputs EXCEPT !.vclfetch = [ret : Hooks.fetch, do_stream : BOOLEAN,
                                     do_gzip : {FALSE}, do_gunzip : {FALSE},
                                     do_esi : {FALSE}, ttl : {100}],
                       !.ce = {"none"},
                       !.nxt = {"empty", "partial", "complete"},
                       !.lingers = {0, 50}]

NextEsi ==
    \/ Run_enter(EsiInputs)
    \/ Run_recv(EsiInputs)
    \/ Run_lookup(EsiInputs)
    \/ Run_hit(EsiInputs)
    \/ Run_miss(EsiInputs)
    \/ Run_pass(EsiInputs)
    \/ Run_fetch(EsiInputs)
    \/ Run_fetchbody(EsiInputs)
    \/ Run_prepresp(EsiInputs)
    \/ Run_deliver
    \/ Run_error(EsiInputs)
    \/ Run_done(EsiInputs)
    \/ CNT_Session_exit
    \/ Peer_lookup
    \/ Run_peer_unbusy(EsiInputs)

SpecEsi == InitEsi /\ [][NextEsi]_vars

LiveInputs ==
    [pipe |-> Hooks.pipe] @@
    [WideInputs EXCEPT
        !.requests = [done : {0, 413}, close : {"NULL"}, expect : {"none"},
                      ae : {"none"}, head : {FALSE}, proto11 : {TRUE}],
        !.recv     = Hooks.recv,
        !.hdr      = {<<0>>, <<1, -1>>},
        !.cl       = {TRUE},
        !.vclfetch = [ret : Hooks.fetch, do_stream : BOOLEAN,
                      do_gzip : {FALSE}, do_gunzip : {FALSE},
                      do_esi : {FALSE}, ttl : {100}],
        !.ce       = {"none"},
        !.alloc    = {<<TRUE, TRUE>>, <<FALSE, FALSE>>},
        !.cond304  = {FALSE},
        !.bodies   = [fail : BOOLEAN, len0 : {FALSE}],
        !.erralloc = {<<TRUE, TRUE>>, <<FALSE, FALSE>>},
        !.errlen0  = {FALSE},
        !.nxt      = {"empty"},
        !.peerobj  = [pass : {FALSE}, gziped : {FALSE}, len0 : {FALSE}]]

\* The handlers the loop of CNT_Session calls.
HandlerStep ==
    \/ Run_first
    \/ Run_wait(LiveInputs)
    \/ Run_start(LiveInputs)
    \/ Run_recv(LiveInputs)
    \/ Run_lookup(LiveInputs)
    \/ Run_hit(LiveInputs)
    \/ Run_miss(LiveInputs)
    \/ Run_pass(LiveInputs)
    \/ Run_pipe(LiveInputs)
    \/ Run_fetch(LiveInputs)
    \/ Run_fetchbody(LiveInputs)
    \/ Run_streambody(LiveInputs)
    \/ Run_prepresp(LiveInputs)
    \/ Run_deliver
    \/ Run_error(LiveInputs)
    \/ Run_done(LiveInputs)

NextLive ==
    \/ Run_enter(LiveInputs)
    \/ HandlerStep
    \/ CNT_Session_exit
    \/ Peer_lookup
    \/ Run_peer_unbusy(LiveInputs)

\* The worker thread that runs CNT_Session keeps running: as long as the
\* loop has a handler to call, the call is made and returns.
SpecLive == Init /\ [][NextLive]_vars /\ WF_vars(HandlerStep)

\* C32: every request that enters start reaches done or is parked by
\* lookup; every transition back to recv increments restarts; recv is
\* entered with restarts <= max_restarts, and restarts falls only on the
\* way into done, so recv is entered at most max_restarts + 1 times per
\* request; and a transition of the loop that leaves restarts unchanged
\* moves forward in the order start, recv, lookup, hit/miss, pass, pipe,
\* fetch, fetchbody, error, prepresp, deliver/streambody, done.
C32_ReachesDone ==
    /\ [](Running("start") =>
             <>(sp.step = "done" \/ (disp = "exit" /\ sloc = "waitinglist")))
    /\ [][(disp = "loop" /\ disp' = "loop" /\ sp'.step = "recv"
           /\ sp.step \notin {"start", "recv"}) =>
              sp'.restarts = sp.restarts + 1]_vars
    /\ [](sp.step = "recv" => sp.restarts <= param.max_restarts)
    /\ [][sp'.restarts < sp.restarts => sp'.step \in {"done", "first"}]_vars
    /\ [][(disp = "loop" /\ disp' = "loop" /\ sp'.step # sp.step
           /\ sp.step \notin {"first", "wait", "done"}
           /\ sp'.restarts = sp.restarts) =>
              LET rank == [x \in {"start", "recv", "lookup", "hit", "miss",
                                  "pass", "pipe", "fetch", "fetchbody",
                                  "error", "prepresp", "deliver",
                                  "streambody", "done"} |->
                              CASE x = "start" -> 0 [] x = "recv" -> 1
                                [] x = "lookup" -> 2
                                [] x \in {"hit", "miss"} -> 3
                                [] x = "pass" -> 4 [] x = "pipe" -> 5
                                [] x = "fetch" -> 6 [] x = "fetchbody" -> 7
                                [] x = "error" -> 8 [] x = "prepresp" -> 9
                                [] x \in {"deliver", "streambody"} -> 10
                                [] x = "done" -> 11]
              IN rank[sp'.step] > rank[sp.step]]_vars

\* C32, amended: every request that enters start reaches done, is parked
\* by lookup, or ends in an abort of the worker (an unimplemented branch
\* or a failed assertion); the bounds on recv and the order of the states
\* are as stated.
C32_ReachesDoneOrAborts ==
    /\ [](Running("start") =>
             <>(\/ sp.step = "done"
                \/ disp = "exit" /\ sloc = "waitinglist"
                \/ disp = "crash"))
    /\ [][(disp = "loop" /\ disp' = "loop" /\ sp'.step = "recv"
           /\ sp.step \notin {"start", "recv"}) =>
              sp'.restarts = sp.restarts + 1]_vars
    /\ [](sp.step = "recv" => sp.restarts <= param.max_restarts)
    /\ [][sp'.restarts < sp.restarts => sp'.step \in {"done", "first"}]_vars
    /\ [][(disp = "loop" /\ disp' = "loop" /\ sp'.step # sp.step
           /\ sp.step \notin {"first", "wait", "done"}
           /\ sp'.restarts = sp.restarts) =>
              LET rank == [x \in {"start", "recv", "lookup", "hit", "miss",
                                  "pass", "pipe", "fetch", "fetchbody",
                                  "error", "prepresp", "deliver",
                                  "streambody", "done"} |->
                              CASE x = "start" -> 0 [] x = "recv" -> 1
                                [] x = "lookup" -> 2
                                [] x \in {"hit", "miss"} -> 3
                                [] x = "pass" -> 4 [] x = "pipe" -> 5
                                [] x = "fetch" -> 6 [] x = "fetchbody" -> 7
                                [] x = "error" -> 8 [] x = "prepresp" -> 9
                                [] x \in {"deliver", "streambody"} -> 10
                                [] x = "done" -> 11]
              IN rank[sp'.step] > rank[sp.step]]_vars

\* A request that entered start has come to done through the error state
\* and cnt_done has closed its connection.
C32_Witness ==
    /\ sp.step = "done" /\ disp = "exit" /\ sloc = "deleted" /\ ~sp.fd
    /\ sp.doclose = "error" /\ sp.xid = 0 /\ sp.restarts = 0
    /\ gh.held = 0 /\ ~wrk.obj.valid
    /\ param.max_restarts = MaxRestartsParam

====
